---- MODULE Spec2Model ----
(***************************************************************************)
(* Model of the aggregation engine of archiefassistent                     *)
(* (src/src/archiefassistent/aggregation.py): the schema-driven merge of   *)
(* the per-chunk partial records of one file into one record.              *)
(*                                                                         *)
(* A Python value x is a pair <<tag, payload>>: x[1] is its type and x[2]   *)
(* its content: None, str (a sequence of one-character strings), int,      *)
(* float, bool, list (a sequence of values) and dict (a sequence of        *)
(* <<key, value>> pairs in insertion order, keys distinct).  An exception  *)
(* that leaves a function is the value Raise(name).                        *)
(***************************************************************************)
EXTENDS Integers, Sequences, FiniteSets, TLC

VARIABLES schema, technical, filetype_guess, chunk_dicts, pc, merged

\* the state of a job (jobs.py, db.py): the columns total_files and
\* files_done of its row, the rows of the table records, the place of the
\* loop over the files, the number of chunks of the file at hand, and the
\* outcomes of the extraction calls made for it so far (a record or an exception)
VARIABLES total_files, files_done, records, fp, chunks, calls

jobvars == <<total_files, files_done, records, fp, chunks, calls>>

\* the objects of the interpreter (each a dict, found by its place in heap),
\* the references a merge is called with, and what the calls returned
VARIABLES heap, refs, results

heapvars == <<heap, refs, results>>

\* one call of a function looked at by itself: its arguments and what it
\* has computed so far
VARIABLES args, ret

callvars == <<args, ret>>

\* the job table and the worker loops (worker.py, db.py): the status of
\* every job in the order of creation, where each worker loop is and the
\* job it holds, and the jobs handed to process_job so far
VARIABLES status, wpc, wjob, handed

workervars == <<status, wpc, wjob, handed>>

vars == <<schema, technical, filetype_guess, chunk_dicts, pc, merged, jobvars, heapvars,
          callvars, workervars>>

(***************************************************************************)
(* Bounds of the model.                                                    *)
(***************************************************************************)
\* the longest list of partial records handed to the aggregator
MaxChunks == 3

\* the most files a job finds, and the most chunks a file of a job is cut in
MaxFiles == 2
MaxJobChunks == 2

\* the most calls made with one list of values
MaxCalls == 2

(***************************************************************************)
(* Python values.                                                          *)
(***************************************************************************)
None == <<"null">>
Str(s) == <<"str", s>>
IntV(n) == <<"int", n>>
Bool(b) == <<"bool", b>>
List(xs) == <<"list", xs>>
Dict(kvs) == <<"dict", kvs>>
\* a float with an integral value n
Flt(n) == <<"float", n>>
Raise(e) == <<"raise", e>>

\* the floats that are no finite number: inf (sign 1), -inf (sign -1) and nan
Inf(sign) == <<"inf", sign>>
NaN == <<"nan", 0>>
\* an int beyond the range of float (abs(n) >= 2**1024), of the given sign
HugeInt(sign) == <<"hugeint", sign>>

IsNone(x) == x[1] = "null"
IsStr(x) == x[1] = "str"
IsInt(x) == x[1] = "int"
IsBool(x) == x[1] = "bool"
IsFloat(x) == x[1] = "float"
IsList(x) == x[1] = "list"
IsDict(x) == x[1] = "dict"
IsRaise(x) == x[1] = "raise"
IsNonFinite(x) == x[1] \in {"inf", "nan"}
IsHugeInt(x) == x[1] = "hugeint"

EmptyDict == Dict(<<>>)
EmptyList == List(<<>>)

\* k in d
Has(d, k) == \E i \in DOMAIN d[2] : d[2][i][1] = k
\* d[k], for a key d holds
Item(d, k) == d[2][CHOOSE i \in DOMAIN d[2] : d[2][i][1] = k][2]
\* d.get(k): None for a key d does not hold
Get(d, k) == IF Has(d, k) THEN Item(d, k) ELSE None
\* d[k] = x: in place for a key d holds, appended otherwise
Put(d, k, x) ==
    IF Has(d, k)
    THEN Dict([i \in DOMAIN d[2] |-> IF d[2][i][1] = k THEN <<k, x>> ELSE d[2][i]])
    ELSE Dict(Append(d[2], <<k, x>>))
KeysOf(d) == {d[2][i][1] : i \in DOMAIN d[2]}

\* Python's truth value of x (bool(x))
Truthy(x) ==
    CASE IsNone(x) -> FALSE
      [] IsStr(x) -> x[2] # <<>>
      [] IsInt(x) -> x[2] # 0
      [] IsFloat(x) -> x[2] # 0
      [] IsBool(x) -> x[2]
      [] IsList(x) -> x[2] # <<>>
      [] IsDict(x) -> x[2] # <<>>
      [] OTHER -> TRUE

\* the subsequence of s of the elements s[i] with keep[i]
RECURSIVE SelectIdx(_, _)
SelectIdx(s, keep) ==
    IF s = <<>> THEN <<>>
    ELSE LET rest == SelectIdx([i \in 1..(Len(s) - 1) |-> s[i]],
                               [i \in 1..(Len(s) - 1) |-> keep[i]])
         IN IF keep[Len(s)] THEN Append(rest, s[Len(s)]) ELSE rest

(***************************************************************************)
(* Strings: str.strip, str.lower, slices.                                  *)
(***************************************************************************)
Whitespace == {" ", "\n", "\t", "\r"}

RECURSIVE lstrip(_)
lstrip(s) == IF s # <<>> /\ Head(s) \in Whitespace THEN lstrip(Tail(s)) ELSE s

RECURSIVE rstrip(_)
rstrip(s) ==
    IF s # <<>> /\ s[Len(s)] \in Whitespace
    THEN rstrip(SubSeq(s, 1, Len(s) - 1)) ELSE s

\* s.strip()
strip(s) == rstrip(lstrip(s))

\* s[:n]
Prefix(s, n) == SubSeq(s, 1, IF Len(s) < n THEN Len(s) ELSE n)

Upper == <<"A", "B", "C", "D", "E", "F", "G", "H", "I", "J", "K", "L", "M",
           "N", "O", "P", "Q", "R", "S", "T", "U", "V", "W", "X", "Y", "Z">>
Lower == <<"a", "b", "c", "d", "e", "f", "g", "h", "i", "j", "k", "l", "m",
           "n", "o", "p", "q", "r", "s", "t", "u", "v", "w", "x", "y", "z">>
lower_char(c) ==
    IF \E i \in DOMAIN Upper : Upper[i] = c
    THEN Lower[CHOOSE i \in DOMAIN Upper : Upper[i] = c] ELSE c
\* s.lower()
lower(s) == [i \in DOMAIN s |-> lower_char(s[i])]

(***************************************************************************)
(* Names the code compares with.                                           *)
(***************************************************************************)
K_type == <<"t", "y", "p", "e">>
K_items == <<"i", "t", "e", "m", "s">>
K_required == <<"r", "e", "q", "u", "i", "r", "e", "d">>
K_properties == <<"p", "r", "o", "p", "e", "r", "t", "i", "e", "s">>
K_technical == <<"t", "e", "c", "h", "n", "i", "c", "a", "l">>
K_filetype == <<"f", "i", "l", "e", "t", "y", "p", "e">>
K_description == <<"d", "e", "s", "c", "r", "i", "p", "t", "i", "o", "n">>
K_samenvatting == <<"s", "a", "m", "e", "n", "v", "a", "t", "t", "i", "n", "g">>
K_abstract == <<"a", "b", "s", "t", "r", "a", "c", "t">>
K_notes == <<"n", "o", "t", "e", "s">>
T_null == <<"n", "u", "l", "l">>
T_string == <<"s", "t", "r", "i", "n", "g">>
T_integer == <<"i", "n", "t", "e", "g", "e", "r">>
T_number == <<"n", "u", "m", "b", "e", "r">>
T_boolean == <<"b", "o", "o", "l", "e", "a", "n">>
T_array == <<"a", "r", "r", "a", "y">>
T_object == <<"o", "b", "j", "e", "c", "t">>

(***************************************************************************)
(* Schema/type helpers.                                                    *)
(***************************************************************************)
\* (x or {}).get(k): AttributeError when x is truthy and not a dict
OrEmptyGet(x, k) ==
    IF ~Truthy(x) THEN None
    ELSE IF IsDict(x) THEN Get(x, k)
    ELSE Raise("AttributeError")

\* the declared type of a field without the default "string"
SchemaTypeNoDefault(prop_schema) ==
    LET t == OrEmptyGet(prop_schema, K_type) IN
    IF IsRaise(t) THEN t
    ELSE IF IsList(t)
    THEN LET nn == SelectIdx(t[2], [i \in DOMAIN t[2] |-> t[2][i] # Str(T_null)])
         IN IF nn # <<>> THEN nn[1] ELSE None
    ELSE t

\* the declared type with the last entry of a list in the place of the first
SchemaTypeLastEntry(prop_schema) ==
    LET t == OrEmptyGet(prop_schema, K_type) IN
    IF IsRaise(t) THEN t
    ELSE IF IsList(t)
    THEN LET nn == SelectIdx(t[2], [i \in DOMAIN t[2] |-> t[2][i] # Str(T_null)])
         IN IF nn # <<>> THEN nn[Len(nn)] ELSE Str(T_string)
    ELSE IF Truthy(t) THEN t ELSE Str(T_string)

_schema_type(prop_schema) ==
    LET t == OrEmptyGet(prop_schema, K_type) IN
    IF IsRaise(t) THEN t
    ELSE IF IsList(t)
    THEN LET nn == SelectIdx(t[2], [i \in DOMAIN t[2] |-> t[2][i] # Str(T_null)])
         IN IF nn # <<>> THEN nn[1] ELSE Str(T_string)
    ELSE IF Truthy(t) THEN t ELSE Str(T_string)

_schema_items_schema(prop_schema) ==
    LET items == OrEmptyGet(prop_schema, K_items) IN
    IF IsRaise(items) THEN items
    ELSE IF IsDict(items) THEN items ELSE EmptyDict

_schema_required_keys(sch) ==
    LET req == OrEmptyGet(sch, K_required) IN
    IF IsRaise(req) THEN req
    ELSE IF IsList(req) THEN req ELSE EmptyList

_schema_properties(sch) ==
    LET props == OrEmptyGet(sch, K_properties) IN
    IF IsRaise(props) THEN props
    ELSE IF IsDict(props) THEN props ELSE EmptyDict

\* the test of _first_non_empty's loop without the test for None
SkippedUnlessNone(x) ==
    \/ IsStr(x) /\ strip(x[2]) = <<>>
    \/ IsList(x) /\ x[2] = <<>>
    \/ IsDict(x) /\ x[2] = <<>>

\* the test of one value in _first_non_empty's loop: the value is passed over
Skipped(x) ==
    \/ IsNone(x)
    \/ IsStr(x) /\ strip(x[2]) = <<>>
    \/ IsList(x) /\ x[2] = <<>>
    \/ IsDict(x) /\ x[2] = <<>>

\* _first_non_empty with the last such value in the place of the first
LastNonEmpty(values) ==
    IF \E i \in DOMAIN values : ~Skipped(values[i])
    THEN values[CHOOSE i \in DOMAIN values :
                   /\ ~Skipped(values[i])
                   /\ \A j \in (i + 1)..Len(values) : Skipped(values[j])]
    ELSE None

_first_non_empty(values) ==
    IF \E i \in DOMAIN values : ~Skipped(values[i])
    THEN values[CHOOSE i \in DOMAIN values :
                   /\ ~Skipped(values[i])
                   /\ \A j \in 1..(i - 1) : Skipped(values[j])]
    ELSE None

(***************************************************************************)
(* Merge primitives.                                                       *)
(***************************************************************************)
\* _merge_strings's default max_len
DefaultMaxLen == 1600
\* the length of the prefix _merge_strings deduplicates by
DedupPrefixLen == 120
\* "\n\n"
BlankLine == <<"\n", "\n">>

\* [v.strip() for v in values if isinstance(v, str) and v.strip()]
StrippedStrings(values) ==
    LET kept == SelectIdx(values, [i \in DOMAIN values |->
                    IsStr(values[i]) /\ strip(values[i][2]) # <<>>])
    IN [i \in DOMAIN kept |-> strip(kept[i][2])]

\* the loop of _merge_strings with the whole text as the key
RECURSIVE UniqueByText(_, _, _)
UniqueByText(ss, unique, seen) ==
    IF ss = <<>> THEN unique
    ELSE IF Head(ss) \notin seen
    THEN UniqueByText(Tail(ss), Append(unique, Head(ss)), seen \cup {Head(ss)})
    ELSE UniqueByText(Tail(ss), unique, seen)

\* the loop of _merge_strings that fills unique and seen
RECURSIVE UniqueByPrefix(_, _, _)
UniqueByPrefix(ss, unique, seen) ==
    IF ss = <<>> THEN unique
    ELSE LET key == Prefix(Head(ss), DedupPrefixLen) IN
         IF key \notin seen
         THEN UniqueByPrefix(Tail(ss), Append(unique, Head(ss)), seen \cup {key})
         ELSE UniqueByPrefix(Tail(ss), unique, seen)

\* sep.join(parts)
RECURSIVE Join(_, _)
Join(sep, parts) ==
    IF parts = <<>> THEN <<>>
    ELSE IF Len(parts) = 1 THEN parts[1]
    ELSE parts[1] \o sep \o Join(sep, Tail(parts))

\* _merge_strings with the last string in the place of the first
MergeStringsLast(values, mode, max_len) ==
    LET ss == StrippedStrings(values) IN
    IF ss = <<>> THEN None
    ELSE IF mode = "concat"
    THEN Str(Prefix(Join(BlankLine, UniqueByPrefix(ss, <<>>, {})), max_len))
    ELSE Str(ss[Len(ss)])

_merge_strings(values, mode, max_len) ==
    LET ss == StrippedStrings(values) IN
    IF ss = <<>> THEN None
    ELSE IF mode = "concat"
    THEN Str(Prefix(Join(BlankLine, UniqueByPrefix(ss, <<>>, {})), max_len))
    ELSE Str(ss[1])

Digits == <<"0", "1", "2", "3", "4", "5", "6", "7", "8", "9">>
IsDigit(c) == \E i \in DOMAIN Digits : Digits[i] = c
DigitVal(c) == (CHOOSE i \in DOMAIN Digits : Digits[i] = c) - 1

RECURSIVE DigitsVal(_)
DigitsVal(s) ==
    IF s = <<>> THEN 0 ELSE 10 * DigitsVal(SubSeq(s, 1, Len(s) - 1)) + DigitVal(s[Len(s)])

AllDigits(s) == s # <<>> /\ \A i \in DOMAIN s : IsDigit(s[i])

\* the spellings of the floats that are no finite number, in lower case
InfWords == {<<"i", "n", "f">>, <<"i", "n", "f", "i", "n", "i", "t", "y">>}
NanWords == {<<"n", "a", "n">>}

\* float(s) for an unsigned s
UnsignedFloat(s, sign) ==
    IF AllDigits(s) THEN Flt(sign * DigitsVal(s))
    ELSE IF lower(s) \in InfWords THEN Inf(sign)
    ELSE IF lower(s) \in NanWords THEN NaN
    ELSE Raise("ValueError")

\* float(s) for a stripped s: an optionally signed run of decimal digits is
\* its value, an optionally signed "inf", "infinity" or "nan" in any case is
\* that float, every other text of the model's inputs is a ValueError (the
\* inputs hold no text with a point, an exponent or an underscore)
float_of_str(s) ==
    IF s # <<>> /\ s[1] = "-" THEN UnsignedFloat(Tail(s), -1)
    ELSE IF s # <<>> /\ s[1] = "+" THEN UnsignedFloat(Tail(s), 1)
    ELSE UnsignedFloat(s, 1)

\* the loop of _merge_numbers that fills nums (bool is a subclass of int)
RECURSIVE Nums(_)
Nums(values) ==
    IF values = <<>> THEN <<>>
    ELSE LET v == Head(values) IN
         IF IsInt(v) \/ IsFloat(v) THEN <<Flt(v[2])>> \o Nums(Tail(values))
         ELSE IF IsNonFinite(v) THEN <<v>> \o Nums(Tail(values))
         ELSE IF IsBool(v) THEN <<Flt(IF v[2] THEN 1 ELSE 0)>> \o Nums(Tail(values))
         ELSE IF IsStr(v) /\ ~IsRaise(float_of_str(strip(v[2])))
         THEN <<float_of_str(strip(v[2]))>> \o Nums(Tail(values))
         ELSE Nums(Tail(values))

\* the modes max and min are over finite numbers; float(v) of an int beyond
\* the range of float is an OverflowError, outside the try
_merge_numbers(values, mode) ==
    LET nums == Nums(values) IN
    IF \E i \in DOMAIN values : IsHugeInt(values[i]) THEN Raise("OverflowError")
    ELSE IF nums = <<>> THEN None
    ELSE IF mode = "max"
    THEN Flt(CHOOSE m \in {nums[i][2] : i \in DOMAIN nums} :
                 \A i \in DOMAIN nums : nums[i][2] <= m)
    ELSE IF mode = "min"
    THEN Flt(CHOOSE m \in {nums[i][2] : i \in DOMAIN nums} :
                 \A i \in DOMAIN nums : nums[i][2] >= m)
    ELSE nums[1]

\* x in (None, "", [], {})
InEmpties(x) == x \in {None, Str(<<>>), EmptyList, EmptyDict}

\* a merge in which the incoming value of a key always replaces the held one
RECURSIVE PutAll(_, _)
PutAll(out, items) ==
    IF items = <<>> THEN out
    ELSE PutAll(Put(out, Head(items)[1], Head(items)[2]), Tail(items))

DeepMergeLastWins(a, b) == PutAll(a, b[2])

\* _deep_merge_objects is MergeInto over b.items(), starting from dict(a)
RECURSIVE _deep_merge_objects(_, _), MergeInto(_, _)
MergeInto(out, items) ==
    IF items = <<>> THEN out
    ELSE LET k == Head(items)[1]
             v == Head(items)[2]
         IN IF ~Has(out, k) \/ InEmpties(Item(out, k))
            THEN MergeInto(Put(out, k, v), Tail(items))
            ELSE IF IsDict(Item(out, k)) /\ IsDict(v)
            THEN MergeInto(Put(out, k, _deep_merge_objects(Item(out, k), v)), Tail(items))
            ELSE MergeInto(out, Tail(items))

_deep_merge_objects(a, b) == MergeInto(a, b[2])

\* the loop of _merge_objects with a value that is no object emptying the
\* accumulator
RECURSIVE FoldObjectsReset(_, _)
FoldObjectsReset(out, values) ==
    IF values = <<>> THEN out
    ELSE IF ~IsDict(Head(values)) THEN FoldObjectsReset(EmptyDict, Tail(values))
    ELSE FoldObjectsReset(_deep_merge_objects(out, Head(values)), Tail(values))

\* the loop of _merge_objects, from the accumulator out
RECURSIVE FoldObjects(_, _)
FoldObjects(out, values) ==
    IF values = <<>> THEN out
    ELSE IF ~IsDict(Head(values)) THEN FoldObjects(out, Tail(values))
    ELSE FoldObjects(_deep_merge_objects(out, Head(values)), Tail(values))

_merge_objects(values) == FoldObjects(EmptyDict, values)

(***************************************************************************)
(* The built-ins the code calls: str(), json.dumps(..., sort_keys=True)    *)
(* and json.loads(), over the characters of CodePoints.  Numbers in a JSON *)
(* text are integers or have a zero fraction, string escapes are those of  *)
(* the characters of CodePoints, and floats stay below 10^16 (no exponent  *)
(* form).                                                                  *)
(***************************************************************************)
\* the characters of the model, in code point order
CodePoints ==
    <<"\t", "\n", "\r", " ", "\"", "+", ",", "-", ".", "/",
      "0", "1", "2", "3", "4", "5", "6", "7", "8", "9", ":", "=",
      "A", "B", "C", "D", "E", "F", "G", "H", "I", "J", "K", "L", "M",
      "N", "O", "P", "Q", "R", "S", "T", "U", "V", "W", "X", "Y", "Z",
      "[", "\\", "]", "_",
      "a", "b", "c", "d", "e", "f", "g", "h", "i", "j", "k", "l", "m",
      "n", "o", "p", "q", "r", "s", "t", "u", "v", "w", "x", "y", "z",
      "{", "|", "}">>
Ord(c) == CHOOSE i \in DOMAIN CodePoints : CodePoints[i] = c

\* a < b for two str
RECURSIVE StrLess(_, _)
StrLess(a, b) ==
    IF b = <<>> THEN FALSE
    ELSE IF a = <<>> THEN TRUE
    ELSE IF Head(a) = Head(b) THEN StrLess(Tail(a), Tail(b))
    ELSE Ord(Head(a)) < Ord(Head(b))

\* sorted(keys)
RECURSIVE SortedKeys(_)
SortedKeys(keys) ==
    IF keys = {} THEN <<>>
    ELSE LET m == CHOOSE k \in keys : \A o \in keys \ {k} : StrLess(k, o)
         IN <<m>> \o SortedKeys(keys \ {m})

RECURSIVE NatToStr(_)
NatToStr(n) ==
    IF n < 10 THEN <<Digits[n + 1]>>
    ELSE NatToStr(n \div 10) \o <<Digits[(n % 10) + 1]>>

\* str(n) for an int
IntToStr(n) == IF n < 0 THEN <<"-">> \o NatToStr(0 - n) ELSE NatToStr(n)
\* repr(x) for a float of integral value n
FloatToStr(n) == IntToStr(n) \o <<".", "0">>

\* the characters json.dumps writes for one character of a str
JsonEscape(c) ==
    CASE c = "\"" -> <<"\\", "\"">>
      [] c = "\\" -> <<"\\", "\\">>
      [] c = "\n" -> <<"\\", "n">>
      [] c = "\t" -> <<"\\", "t">>
      [] c = "\r" -> <<"\\", "r">>
      [] OTHER -> <<c>>

RECURSIVE Flatten(_)
Flatten(parts) == IF parts = <<>> THEN <<>> ELSE Head(parts) \o Flatten(Tail(parts))

JsonString(s) == <<"\"">> \o Flatten([i \in DOMAIN s |-> JsonEscape(s[i])]) \o <<"\"">>

\* json.dumps(x, ensure_ascii=False, sort_keys=True)
RECURSIVE json_dumps(_)
json_dumps(x) ==
    CASE IsNone(x) -> <<"n", "u", "l", "l">>
      [] IsBool(x) -> IF x[2] THEN <<"t", "r", "u", "e">> ELSE <<"f", "a", "l", "s", "e">>
      [] IsInt(x) -> IntToStr(x[2])
      [] IsFloat(x) -> FloatToStr(x[2])
      [] IsStr(x) -> JsonString(x[2])
      [] IsList(x) ->
            <<"[">> \o Join(<<",", " ">>, [i \in DOMAIN x[2] |-> json_dumps(x[2][i])]) \o <<"]">>
      [] IsDict(x) ->
            LET ks == SortedKeys(KeysOf(x)) IN
            <<"{">> \o Join(<<",", " ">>, [i \in DOMAIN ks |->
                        JsonString(ks[i]) \o <<":", " ">> \o json_dumps(Item(x, ks[i]))])
                 \o <<"}">>

\* the characters repr() writes for one character of a str
ReprEscape(c) ==
    CASE c = "\\" -> <<"\\", "\\">>
      [] c = "\n" -> <<"\\", "n">>
      [] c = "\t" -> <<"\\", "t">>
      [] c = "\r" -> <<"\\", "r">>
      [] OTHER -> <<c>>

\* repr(x); CodePoints has no single quote, so a str is written in single quotes
RECURSIVE repr(_)
repr(x) ==
    CASE IsNone(x) -> <<"N", "o", "n", "e">>
      [] IsBool(x) -> IF x[2] THEN <<"T", "r", "u", "e">> ELSE <<"F", "a", "l", "s", "e">>
      [] IsInt(x) -> IntToStr(x[2])
      [] IsFloat(x) -> FloatToStr(x[2])
      [] IsStr(x) -> <<"'">> \o Flatten([i \in DOMAIN x[2] |-> ReprEscape(x[2][i])]) \o <<"'">>
      [] IsList(x) ->
            <<"[">> \o Join(<<",", " ">>, [i \in DOMAIN x[2] |-> repr(x[2][i])]) \o <<"]">>
      [] IsDict(x) ->
            <<"{">> \o Join(<<",", " ">>, [i \in DOMAIN x[2] |->
                        repr(Str(x[2][i][1])) \o <<":", " ">> \o repr(x[2][i][2])])
                 \o <<"}">>

\* str(x)
str(x) == IF IsStr(x) THEN x[2] ELSE repr(x)

Parsed(x, next) == [ok |-> TRUE, val |-> x, pos |-> next]
NoParse == [ok |-> FALSE, val |-> None, pos |-> 0]

\* the first position from i on that holds no JSON whitespace
RECURSIVE SkipWs(_, _)
SkipWs(s, i) == IF i <= Len(s) /\ s[i] \in Whitespace THEN SkipWs(s, i + 1) ELSE i

At(s, i) == IF i \in DOMAIN s THEN s[i] ELSE ""
StartsAt(s, i, lit) == i + Len(lit) - 1 <= Len(s) /\ SubSeq(s, i, i + Len(lit) - 1) = lit

\* the end of the run of digits that starts at i
RECURSIVE DigitsEnd(_, _)
DigitsEnd(s, i) == IF i <= Len(s) /\ IsDigit(s[i]) THEN DigitsEnd(s, i + 1) ELSE i

\* a JSON string body from i on (after the opening quote), acc the characters read
RECURSIVE ParseStringBody(_, _, _)
ParseStringBody(s, i, acc) ==
    IF i > Len(s) THEN NoParse
    ELSE IF s[i] = "\"" THEN Parsed(Str(acc), i + 1)
    ELSE IF s[i] \in {"\n", "\t", "\r"} THEN NoParse
    ELSE IF s[i] = "\\"
    THEN LET e == At(s, i + 1) IN
         CASE e = "\"" -> ParseStringBody(s, i + 2, Append(acc, "\""))
           [] e = "\\" -> ParseStringBody(s, i + 2, Append(acc, "\\"))
           [] e = "/" -> ParseStringBody(s, i + 2, Append(acc, "/"))
           [] e = "n" -> ParseStringBody(s, i + 2, Append(acc, "\n"))
           [] e = "t" -> ParseStringBody(s, i + 2, Append(acc, "\t"))
           [] e = "r" -> ParseStringBody(s, i + 2, Append(acc, "\r"))
           [] OTHER -> NoParse
    ELSE ParseStringBody(s, i + 1, Append(acc, s[i]))

\* a JSON number at i: -? (0 | [1-9][0-9]*) (. 0+)?
ParseNumber(s, i) ==
    LET neg == At(s, i) = "-"
        d == IF neg THEN i + 1 ELSE i
        e == IF At(s, d) = "0" THEN d + 1 ELSE DigitsEnd(s, d)
        n == DigitsVal(SubSeq(s, d, e - 1))
        f == DigitsEnd(s, e + 1)
    IN IF e = d THEN NoParse
       ELSE IF At(s, e) = "." /\ f > e + 1
       THEN IF DigitsVal(SubSeq(s, e + 1, f - 1)) = 0 /\ At(s, f) \notin {"e", "E"}
            THEN Parsed(Flt(IF neg THEN 0 - n ELSE n), f)
            ELSE NoParse
       ELSE IF At(s, e) \in {"e", "E"} THEN NoParse
       ELSE Parsed(IntV(IF neg THEN 0 - n ELSE n), e)

RECURSIVE ParseValue(_, _), ParseElems(_, _, _), ParseMembers(_, _, _)
\* the JSON value at i
ParseValue(s, i) ==
    LET c == At(s, i) IN
    CASE c = "\"" -> ParseStringBody(s, i + 1, <<>>)
      [] c = "[" ->
            LET j == SkipWs(s, i + 1) IN
            IF At(s, j) = "]" THEN Parsed(EmptyList, j + 1) ELSE ParseElems(s, j, <<>>)
      [] c = "{" ->
            LET j == SkipWs(s, i + 1) IN
            IF At(s, j) = "}" THEN Parsed(EmptyDict, j + 1) ELSE ParseMembers(s, j, EmptyDict)
      [] c = "-" \/ IsDigit(c) -> ParseNumber(s, i)
      [] StartsAt(s, i, <<"t", "r", "u", "e">>) -> Parsed(Bool(TRUE), i + 4)
      [] StartsAt(s, i, <<"f", "a", "l", "s", "e">>) -> Parsed(Bool(FALSE), i + 5)
      [] StartsAt(s, i, <<"n", "u", "l", "l">>) -> Parsed(None, i + 4)
      [] OTHER -> NoParse

\* the elements of a JSON array from i on, acc the elements read
ParseElems(s, i, acc) ==
    LET r == ParseValue(s, i)
        k == SkipWs(s, r.pos)
    IN IF ~r.ok THEN NoParse
       ELSE IF At(s, k) = "," THEN ParseElems(s, SkipWs(s, k + 1), Append(acc, r.val))
       ELSE IF At(s, k) = "]" THEN Parsed(List(Append(acc, r.val)), k + 1)
       ELSE NoParse

\* the members of a JSON object from i on, acc the dict read (a repeated key
\* keeps its place and takes the last value)
ParseMembers(s, i, acc) ==
    LET key == IF At(s, i) = "\"" THEN ParseStringBody(s, i + 1, <<>>) ELSE NoParse
        c == SkipWs(s, key.pos)
        r == ParseValue(s, SkipWs(s, c + 1))
        k == SkipWs(s, r.pos)
    IN IF ~key.ok \/ At(s, c) # ":" THEN NoParse
       ELSE IF ~r.ok THEN NoParse
       ELSE IF At(s, k) = "," THEN ParseMembers(s, SkipWs(s, k + 1), Put(acc, key.val[2], r.val))
       ELSE IF At(s, k) = "}" THEN Parsed(Put(acc, key.val[2], r.val), k + 1)
       ELSE NoParse

\* json.loads(s): the value, or a ValueError
json_loads(s) ==
    LET r == ParseValue(s, SkipWs(s, 1)) IN
    IF r.ok /\ SkipWs(s, r.pos) = Len(s) + 1 THEN r.val ELSE Raise("ValueError")

(***************************************************************************)
(* Schema-driven object identity.                                          *)
(***************************************************************************)
\* the alternatives of _ID_HINT_RE
IdHintWords ==
    { <<"i", "d">>, <<"i", "d", "e", "n", "t", "i", "f", "i", "e", "r">>,
      <<"i", "d", "e", "n", "t", "i", "f", "i", "c", "a", "t", "i", "e">>,
      <<"u", "u", "i", "d">>, <<"g", "u", "i", "d">>, <<"u", "r", "i">>,
      <<"i", "r", "i">>, <<"u", "r", "l">>, <<"r", "e", "f">>,
      <<"r", "e", "f", "e", "r", "e", "n", "c", "e">>,
      <<"n", "u", "m", "m", "e", "r">>, <<"n", "u", "m", "b", "e", "r">>,
      <<"c", "o", "d", "e">>, <<"k", "e", "y">> }

\* _ID_HINT_RE.search(k): a word of the vocabulary, in any case, that starts at
\* the start of k or after "_" and ends at the end of k (or before its final
\* newline) or before "_"
IdHintSearch(k) ==
    \E i \in DOMAIN k : \E w \in IdHintWords :
        LET j == i + Len(w) IN
        /\ i = 1 \/ k[i - 1] = "_"
        /\ j - 1 <= Len(k)
        /\ lower(SubSeq(k, i, j - 1)) = w
        /\ \/ j = Len(k) + 1
           \/ j = Len(k) /\ k[j] = "\n"
           \/ j <= Len(k) /\ k[j] = "_"

_norm_scalar(x) ==
    IF IsNone(x) THEN <<>>
    ELSE IF IsBool(x) THEN (IF x[2] THEN <<"t", "r", "u", "e">> ELSE <<"f", "a", "l", "s", "e">>)
    ELSE lower(strip(str(x)))

SimpleTypes == {Str(T_string), Str(T_integer), Str(T_number), Str(T_boolean)}

\* TRUE, FALSE, or the exception of _schema_type
_is_simple_type(s) ==
    LET t == _schema_type(s) IN
    IF IsRaise(t) THEN t ELSE Bool(t \in SimpleTypes)

\* props.get(k, {})
GetOrEmpty(props, k) == IF Has(props, k) THEN Item(props, k) ELSE EmptyDict

\* the keys of props, in order, as a list
KeyList(props) == [i \in DOMAIN props[2] |-> Str(props[2][i][1])]

\* k in props, for any value k: unhashable for a list or a dict
InProps(props, k) ==
    IF IsList(k) \/ IsDict(k) THEN Raise("TypeError")
    ELSE Bool(IsStr(k) /\ Has(props, k[2]))

\* [_is_simple_type(props.get(k, {})) for k in names]
SimpleFlags(props, names) ==
    [i \in DOMAIN names |-> _is_simple_type(GetOrEmpty(props, names[i][2]))]

\* [k in props and _is_simple_type(props.get(k, {})) for k in req]
RequiredFlags(props, req) ==
    [i \in DOMAIN req |->
        IF InProps(props, req[i]) = Bool(TRUE)
        THEN _is_simple_type(GetOrEmpty(props, req[i][2]))
        ELSE InProps(props, req[i])]

\* the first exception among flags, if any
FirstRaise(flags) ==
    flags[CHOOSE i \in DOMAIN flags :
             IsRaise(flags[i]) /\ \A j \in 1..(i - 1) : ~IsRaise(flags[j])]
AnyRaise(flags) == \E i \in DOMAIN flags : IsRaise(flags[i])

\* the elements of names whose flag is True
Flagged(names, flags) == SelectIdx(names, [i \in DOMAIN names |-> flags[i] = Bool(TRUE)])

\* step 3: up to 4 simple-type properties
SimpleKeys(props) ==
    List(Prefix(SelectIdx(KeyList(props), [i \in DOMAIN props[2] |->
                    /\ IsDict(props[2][i][2])
                    /\ _is_simple_type(props[2][i][2]) = Bool(TRUE)]), 4))

\* step 2: required keys that are simple types
RequiredKeys(props, req, flags) ==
    IF AnyRaise(flags) THEN FirstRaise(flags)
    ELSE IF Flagged(req, flags) # <<>> THEN List(Prefix(Flagged(req, flags), 4))
    ELSE SimpleKeys(props)

\* step 1 without its own cut: up to 4 identifier-like keys, as in steps 2, 3
IdLikeKeysUpToFour(props, req, hinted, flags) ==
    IF AnyRaise(flags) THEN FirstRaise(flags)
    ELSE IF Flagged(hinted, flags) # <<>> THEN List(Prefix(Flagged(hinted, flags), 4))
    ELSE RequiredKeys(props, req[2], RequiredFlags(props, req[2]))

\* step 1: identifier-like keys, hinted the names that match _ID_HINT_RE
IdLikeKeys(props, req, hinted, flags) ==
    IF AnyRaise(flags) THEN FirstRaise(flags)
    ELSE IF Flagged(hinted, flags) # <<>> THEN List(Prefix(Flagged(hinted, flags), 2))
    ELSE RequiredKeys(props, req[2], RequiredFlags(props, req[2]))

HintedNames(names) == SelectIdx(names, [i \in DOMAIN names |-> IdHintSearch(names[i][2])])

DeriveFrom(props, req) ==
    IF props[2] = <<>> THEN EmptyList
    ELSE IdLikeKeys(props, req, HintedNames(KeyList(props)),
                    SimpleFlags(props, HintedNames(KeyList(props))))

\* items_schema is a dict (_schema_items_schema), so its helpers do not raise
_derive_identity_keys(items_schema) ==
    DeriveFrom(_schema_properties(items_schema), _schema_required_keys(items_schema))

\* the parts of _object_signature, one per key of keys that obj fills
RECURSIVE SignatureParts(_, _)
SignatureParts(obj, keys) ==
    IF keys = <<>> THEN <<>>
    ELSE LET k == Head(keys)[2] IN
         IF Has(obj, k) /\ ~InEmpties(Get(obj, k))
         THEN <<k \o <<"=">> \o _norm_scalar(Get(obj, k))>> \o SignatureParts(obj, Tail(keys))
         ELSE SignatureParts(obj, Tail(keys))

\* (json.dumps serializes every value of the model, so the "str:" fallback of
\* the except branch is never taken)
SignatureOf(obj, parts) ==
    IF parts # <<>> THEN <<"s", "i", "g", ":">> \o Join(<<"|">>, parts)
    ELSE <<"j", "s", "o", "n", ":">> \o json_dumps(obj)

_object_signature(obj, keys) == SignatureOf(obj, SignatureParts(obj, keys))

(***************************************************************************)
(* Array merge (schema-driven).                                            *)
(***************************************************************************)
\* the str branch of _coerce_to_list, s the stripped text and parsed what
\* json.loads(s) gives
CoerceText(s, parsed) ==
    IF s = <<>> THEN <<>>
    ELSE IF s[1] \in {"[", "{"} /\ IsList(parsed) THEN parsed[2]
    ELSE IF s[1] \in {"[", "{"} /\ IsDict(parsed) THEN <<parsed>>
    ELSE <<Str(s)>>

\* the list _coerce_to_list returns, as a sequence
_coerce_to_list(v) ==
    CASE IsNone(v) -> <<>>
      [] IsList(v) -> v[2]
      [] IsDict(v) -> <<v>>
      [] IsStr(v) -> CoerceText(strip(v[2]), json_loads(strip(v[2])))
      [] OTHER -> <<>>

\* for v in values: for item in _coerce_to_list(v)
AllItems(values) == Flatten([i \in DOMAIN values |-> _coerce_to_list(values[i])])

\* one pass of the loop of _merge_array_of_objects that keeps the first
\* object of a signature as it is
MergeItemKeepFirst(merged_by_sig, sig, item) ==
    IF ~Has(merged_by_sig, sig) THEN Put(merged_by_sig, sig, item)
    ELSE merged_by_sig

\* one pass of the loop of _merge_array_of_objects for a dict item of
\* signature sig: merged_by_sig is a dict from signature to object whose
\* insertion order is the list order
MergeItem(merged_by_sig, sig, item) ==
    IF ~Has(merged_by_sig, sig) THEN Put(merged_by_sig, sig, item)
    ELSE Put(merged_by_sig, sig, _deep_merge_objects(Item(merged_by_sig, sig), item))

\* the loop of _merge_array_of_objects
RECURSIVE MergeBySig(_, _, _)
MergeBySig(items, keys, merged_by_sig) ==
    IF items = <<>> THEN merged_by_sig
    ELSE IF ~IsDict(Head(items)) THEN MergeBySig(Tail(items), keys, merged_by_sig)
    ELSE MergeBySig(Tail(items), keys,
             MergeItem(merged_by_sig, _object_signature(Head(items), keys), Head(items)))

\* the merged objects with the last signature first
ValuesReversed(merged_by_sig) ==
    List([i \in DOMAIN merged_by_sig[2] |->
             merged_by_sig[2][Len(merged_by_sig[2]) + 1 - i][2]])

\* [merged_by_sig[s] for s in order]
ValuesInOrder(merged_by_sig) == List([i \in DOMAIN merged_by_sig[2] |-> merged_by_sig[2][i][2]])

MergeWithKeys(values, keys) ==
    IF IsRaise(keys) THEN keys
    ELSE ValuesInOrder(MergeBySig(AllItems(values), keys[2], EmptyDict))

_merge_array_of_objects(values, items_schema) ==
    MergeWithKeys(values, _derive_identity_keys(items_schema))

\* the key _merge_array_of_scalars deduplicates an item by
ScalarKey(item) == IF IsDict(item) \/ IsList(item) THEN json_dumps(item) ELSE str(item)

\* the loop of _merge_array_of_scalars with a seen set that only holds the
\* key of the item before
RECURSIVE ScalarLoopAdjacent(_, _, _)
ScalarLoopAdjacent(items, out, seen) ==
    IF items = <<>> THEN out
    ELSE LET item == Head(items) IN
         IF IsNone(item) \/ ScalarKey(item) \in seen
         THEN ScalarLoopAdjacent(Tail(items), out, seen)
         ELSE ScalarLoopAdjacent(Tail(items), Append(out, item), {ScalarKey(item)})

\* the loop of _merge_array_of_scalars
RECURSIVE ScalarLoop(_, _, _)
ScalarLoop(items, out, seen) ==
    IF items = <<>> THEN out
    ELSE LET item == Head(items) IN
         IF IsNone(item) \/ ScalarKey(item) \in seen
         THEN ScalarLoop(Tail(items), out, seen)
         ELSE ScalarLoop(Tail(items), Append(out, item), seen \cup {ScalarKey(item)})

\* _merge_array_of_scalars without the seen set
MergeArrayOfScalarsKeepAll(values) ==
    List(SelectIdx(AllItems(values), [i \in DOMAIN AllItems(values) |->
                                         ~IsNone(AllItems(values)[i])]))

_merge_array_of_scalars(values) == List(ScalarLoop(AllItems(values), <<>>, {}))

_merge_arrays(values, items_schema) ==
    IF _schema_type(items_schema) = Str(T_object)
    THEN _merge_array_of_objects(values, items_schema)
    ELSE _merge_array_of_scalars(values)

(***************************************************************************)
(* Main aggregator.                                                        *)
(***************************************************************************)
\* the field names merged with mode "concat"
ConcatKeys == {K_description, K_samenvatting, K_abstract, K_notes}
TrueWords == {<<"t", "r", "u", "e">>, <<"j", "a">>, <<"y", "e", "s">>, <<"1">>}
FalseWords == {<<"f", "a", "l", "s", "e">>, <<"n", "e", "e">>, <<"n", "o">>, <<"0">>}

\* int(x) for a float x of integral value
int_of_float(x) == IntV(x[2])

\* the boolean branch without the mapping of text
BooleanUnmapped(x) == x

\* the boolean branch, from the value _first_non_empty chose
BooleanOf(x) ==
    IF IsStr(x)
    THEN LET s == lower(strip(x[2])) IN
         IF s \in TrueWords THEN Bool(TRUE)
         ELSE IF s \in FalseWords THEN Bool(FALSE)
         ELSE None
    ELSE x

\* [d.get(key) for d in chunk_dicts], for a list of dicts
ValuesOf(dicts, key) == [i \in DOMAIN dicts |-> Get(dicts[i], key)]

\* the integer/number branch, n the value _merge_numbers chose: int(n) is
\* an OverflowError for inf and a ValueError for nan, both caught
NumberOf(t, n) ==
    IF t = Str(T_integer) /\ IsFloat(n) THEN int_of_float(n)
    ELSE IF t = Str(T_integer) /\ IsNonFinite(n) THEN None
    ELSE n

\* the dispatch on t = _schema_type(prop_schema) for the values of one field
MergeTyped(key, prop_schema, t, values) ==
    IF t = Str(T_string)
    THEN _merge_strings(values, IF key \in ConcatKeys THEN "concat" ELSE "first",
                        DefaultMaxLen)
    ELSE IF t = Str(T_array) THEN _merge_arrays(values, _schema_items_schema(prop_schema))
    ELSE IF t = Str(T_object) THEN _merge_objects(values)
    ELSE IF t \in {Str(T_integer), Str(T_number)}
    THEN NumberOf(t, _merge_numbers(values, "first"))
    ELSE IF t = Str(T_boolean) THEN BooleanOf(_first_non_empty(values))
    ELSE _first_non_empty(values)

\* prop_schema if isinstance(prop_schema, dict) else {}
DictOrEmpty(entry) == IF IsDict(entry) THEN entry ELSE EmptyDict

\* one pass of the loop over props.items(): the value assigned to out[key],
\* or the exception raised (d.get of an entry that is not a dict)
MergeField(key, entry, dicts) ==
    IF \E i \in DOMAIN dicts : ~IsDict(dicts[i]) THEN Raise("AttributeError")
    ELSE MergeTyped(key, DictOrEmpty(entry), _schema_type(DictOrEmpty(entry)),
                    ValuesOf(dicts, key))

\* EmptyCase without the tests on props: the sidecar fields are put in
\* whether the schema declares them or not
EmptyCaseUndeclared(props, tech, guess) ==
    LET withTech == IF ~IsNone(tech) THEN Put(EmptyDict, K_technical, tech) ELSE EmptyDict
    IN IF ~IsNone(guess) THEN Put(withTech, K_filetype, guess) ELSE withTech

\* the record returned for an empty list of partial records
EmptyCase(props, tech, guess) ==
    LET withTech == IF Has(props, K_technical) /\ ~IsNone(tech)
                    THEN Put(EmptyDict, K_technical, tech) ELSE EmptyDict
    IN IF Has(props, K_filetype) /\ ~IsNone(guess)
       THEN Put(withTech, K_filetype, guess) ELSE withTech

\* a post-pass that puts the supplied values in whatever was computed
PostPassAlways(out, props, tech, guess) ==
    LET withTech == IF Has(props, K_technical) /\ ~IsNone(tech)
                    THEN Put(out, K_technical, tech) ELSE out
    IN IF Has(props, K_filetype) /\ ~IsNone(guess)
       THEN Put(withTech, K_filetype, guess) ELSE withTech

\* "Ensure technical + filetype if schema expects them"
PostPass(out, props, tech, guess) ==
    LET withTech == IF /\ Has(props, K_technical)
                       /\ ~IsDict(Get(out, K_technical))
                       /\ ~IsNone(tech)
                    THEN Put(out, K_technical, tech) ELSE out
    IN IF /\ Has(props, K_filetype)
          /\ ~Truthy(Get(withTech, K_filetype))
          /\ ~IsNone(guess)
       THEN Put(withTech, K_filetype, guess) ELSE withTech

\* "Drop extras not in schema"
DropExtras(out, props) ==
    Dict(SelectIdx(out[2], [i \in DOMAIN out[2] |-> Has(props, out[2][i][1])]))

\* Finish with an out that leaves out the fields whose merge gave None
FinishWithoutNulls(props, fields, tech, guess) ==
    IF AnyRaise(fields) THEN FirstRaise(fields)
    ELSE DropExtras(PostPass(Dict(SelectIdx(
                                 [i \in DOMAIN props[2] |-> <<props[2][i][1], fields[i]>>],
                                 [i \in DOMAIN props[2] |-> ~IsNone(fields[i])])),
                             props, tech, guess), props)

\* the end of the call, fields the values the loop assigned, in props order
Finish(props, fields, tech, guess) ==
    IF AnyRaise(fields) THEN FirstRaise(fields)
    ELSE DropExtras(PostPass(Dict([i \in DOMAIN props[2] |-> <<props[2][i][1], fields[i]>>]),
                             props, tech, guess), props)

AggregateProps(dicts, props, tech, guess) ==
    IF IsRaise(props) THEN props
    ELSE IF dicts = <<>> THEN EmptyCase(props, tech, guess)
    ELSE Finish(props,
                [i \in DOMAIN props[2] |-> MergeField(props[2][i][1], props[2][i][2], dicts)],
                tech, guess)

aggregate_chunk_dicts(dicts, sch, tech, guess) ==
    AggregateProps(dicts, _schema_properties(sch), tech, guess)

(***************************************************************************)
(* The inputs of the model: the schemas a call is made with and, for each  *)
(* schema, the entries the list of partial records is built from: absent,  *)
(* null, blank, padded, wrong-typed and undeclared values, and entries     *)
(* that are not dicts.                                                     *)
(***************************************************************************)
\* the str of n characters c
Rep(c, n) == [i \in 1..n |-> c]

HelloWorld == <<"H", "e", "l", "l", "o", " ", "w", "o", "r", "l", "d", ".">>
JsonPerson == <<"{", "\"", "p", "e", "r", "s", "o", "n", "_", "i", "d", "\"", ":", " ", "\"", "1", "\"", ",", " ", "\"", "r", "o", "l", "e", "\"", ":", " ", "\"", "l", "i", "d", "\"", "}">>
JsonSubjects == <<"[", "\"", "z", "\"", ",", " ", "1", "]">>
LongA == Rep("a", 1000)
LongB == Rep("b", 700)
NearLongA == Rep("a", 120) \o <<"b">>
PaddedHelloWorld == <<" ", "H", "e", "l", "l", "o", " ", "w", "o", "r", "l", "d", ".", "\n">>
s_a == <<"a">>
s_abc == <<"a", "b", "c">>
s_amount == <<"a", "m", "o", "u", "n", "t">>
s_auteur == <<"a", "u", "t", "e", "u", "r">>
s_authors == <<"a", "u", "t", "h", "o", "r", "s">>
s_b == <<"b">>
s_born == <<"b", "o", "r", "n">>
s_c == <<"c">>
s_city == <<"c", "i", "t", "y">>
s_count == <<"c", "o", "u", "n", "t">>
s_d == <<"d">>
s_date == <<"d", "a", "t", "e">>
s_doc == <<"d", "o", "c">>
s_e == <<"e">>
s_Ede == <<"E", "d", "e">>
s_extra == <<"e", "x", "t", "r", "a">>
s_flag == <<"f", "l", "a", "g">>
s_id == <<"i", "d">>
s_ja == <<"j", "a">>
s_Jan == <<"J", "a", "n">>
s_k == <<"k">>
s_language == <<"l", "a", "n", "g", "u", "a", "g", "e">>
s_lid == <<"l", "i", "d">>
s_maybe == <<"m", "a", "y", "b", "e">>
s_meta == <<"m", "e", "t", "a">>
s_name == <<"n", "a", "m", "e">>
s_nee == <<"n", "e", "e">>
s_nl == <<"n", "l">>
s_p == <<"p">>
s_P1 == <<"P", "1">>
s_P2 == <<"P", "2">>
s_path == <<"p", "a", "t", "h">>
s_pdf == <<"p", "d", "f">>
s_person_id == <<"p", "e", "r", "s", "o", "n", "_", "i", "d">>
s_persons == <<"p", "e", "r", "s", "o", "n", "s">>
s_Piet == <<"P", "i", "e", "t">>
s_refs == <<"r", "e", "f", "s">>
s_role == <<"r", "o", "l", "e">>
s_s == <<"s">>
s_sha256 == <<"s", "h", "a", "2", "5", "6">>
s_str == <<"s", "t", "r">>
s_subjects == <<"s", "u", "b", "j", "e", "c", "t", "s">>
s_t == <<"t">>
s_tags == <<"t", "a", "g", "s">>
s_title == <<"t", "i", "t", "l", "e">>
s_v == <<"v">>
s_x == <<"x">>
s_y == <<"y">>
s_z == <<"z">>

SchemaArchive ==
    Dict(<<
      <<K_type, Str(T_object)>>,
      <<K_properties, Dict(<<
          <<s_title, Dict(<<<<K_type, List(<<Str(T_string), Str(T_null)>>)>>>>)>>,
          <<K_filetype, Dict(<<<<K_type, Str(T_string)>>>>)>>,
          <<K_technical, Dict(<<<<K_type, Str(T_object)>>>>)>>>>)>>>>)

SchemaLoose ==
    Dict(<<
      <<K_properties, Dict(<<
          <<K_technical, Dict(<<<<K_type, List(<<Str(T_null), Str(T_string)>>)>>>>)>>,
          <<K_filetype, Dict(<<<<K_type, Str(T_boolean)>>>>)>>>>)>>>>)

SchemaEmpty ==
    Dict(<<>>)

SchemaNoMapping ==
    Dict(<<
      <<K_type, Str(T_object)>>,
      <<K_properties, List(<<Str(K_technical), Str(K_filetype)>>)>>>>)

SchemaLanguage ==
    Dict(<<
      <<K_properties, Dict(<<<<s_language, Dict(<<<<K_type, Str(T_string)>>>>)>>>>)>>>>)

SchemaTitle ==
    Dict(<<
      <<K_properties, Dict(<<<<s_title, Dict(<<<<K_type, List(<<Str(T_string), Str(T_null)>>)>>>>)>>>>)>>>>)

SchemaDescription ==
    Dict(<<
      <<K_properties, Dict(<<<<K_description, Dict(<<<<K_type, Str(T_string)>>>>)>>>>)>>>>)

SchemaFlag ==
    Dict(<<<<K_properties, Dict(<<<<s_flag, Dict(<<<<K_type, Str(T_boolean)>>>>)>>>>)>>>>)

SchemaSubjects ==
    Dict(<<
      <<K_properties, Dict(<<
          <<s_subjects, Dict(<<
              <<K_type, Str(T_array)>>,
              <<K_items, Dict(<<<<K_type, Str(T_string)>>>>)>>>>)>>>>)>>>>)

SchemaPersons ==
    Dict(<<
      <<K_properties, Dict(<<
          <<s_persons, Dict(<<
              <<K_type, Str(T_array)>>,
              <<K_items, Dict(<<
                  <<K_type, Str(T_object)>>,
                  <<K_properties, Dict(<<
                      <<s_name, Dict(<<<<K_type, Str(T_string)>>>>)>>,
                      <<s_person_id, Dict(<<<<K_type, List(<<Str(T_string), Str(T_null)>>)>>>>)>>,
                      <<s_role, Dict(<<<<K_type, Str(T_string)>>>>)>>>>)>>>>)>>>>)>>>>)>>>>)

SchemaAuthors ==
    Dict(<<
      <<K_properties, Dict(<<
          <<s_authors, Dict(<<
              <<K_type, Str(T_array)>>,
              <<K_items, Dict(<<
                  <<K_type, Str(T_object)>>,
                  <<K_properties, Dict(<<
                      <<s_name, Dict(<<<<K_type, Str(T_string)>>>>)>>,
                      <<s_tags, Dict(<<<<K_type, Str(T_array)>>>>)>>,
                      <<s_role, Dict(<<<<K_type, Str(T_string)>>>>)>>>>)>>>>)>>>>)>>>>)>>>>)

SchemaMeta ==
    Dict(<<<<K_properties, Dict(<<<<s_meta, Dict(<<<<K_type, Str(T_object)>>>>)>>>>)>>>>)

SchemaCount ==
    Dict(<<
      <<K_properties, Dict(<<
          <<s_count, Dict(<<<<K_type, Str(T_integer)>>>>)>>,
          <<s_amount, Dict(<<<<K_type, Str(T_number)>>>>)>>>>)>>>>)

SchemaBadItems ==
    Dict(<<
      <<K_properties, Dict(<<
          <<s_refs, Dict(<<
              <<K_type, Str(T_array)>>,
              <<K_items, Dict(<<
                  <<K_type, Str(T_object)>>,
                  <<K_properties, Dict(<<<<s_id, Str(T_string)>>>>)>>>>)>>>>)>>>>)>>>>)

SchemaUntyped ==
    Dict(<<
      <<K_properties, Dict(<<
          <<s_x, Str(T_string)>>,
          <<s_y, Dict(<<<<K_type, Str(s_date)>>>>)>>,
          <<s_z, Dict(<<<<s_title, Str(s_z)>>>>)>>>>)>>>>)

Schemas ==
    {SchemaArchive, SchemaLoose, SchemaEmpty, SchemaNoMapping,
     SchemaLanguage, SchemaTitle, SchemaDescription, SchemaFlag,
     SchemaSubjects, SchemaPersons, SchemaAuthors, SchemaMeta,
     SchemaCount, SchemaBadItems, SchemaUntyped}

RecordsArchive ==
    {Dict(<<>>),
     Dict(<<<<s_title, Str(<<" ", "T", " ">>)>>>>),
     Dict(<<<<K_technical, Dict(<<<<s_path, Str(s_p)>>>>)>>>>),
     Dict(<<<<K_technical, Dict(<<>>)>>, <<K_filetype, Str(<<" ">>)>>>>),
     Dict(<<<<K_filetype, Str(s_doc)>>, <<s_extra, Str(s_x)>>>>),
     Dict(<<<<K_technical, None>>, <<K_filetype, None>>>>),
     Dict(<<<<K_technical, Str(s_x)>>, <<K_filetype, IntV(0)>>>>)}

RecordsLoose ==
    {Dict(<<>>),
     Dict(<<<<K_technical, Str(s_t)>>>>),
     Dict(<<<<K_filetype, Str(s_nee)>>>>),
     Dict(<<<<K_filetype, Bool(TRUE)>>, <<K_technical, Dict(<<<<s_a, Str(s_b)>>>>)>>>>),
     Dict(<<<<K_filetype, IntV(5)>>>>)}

RecordsEmpty ==
    {Dict(<<>>),
     Dict(<<<<s_a, Str(s_x)>>>>),
     None}

RecordsNoMapping ==
    {Dict(<<>>),
     Dict(<<<<K_technical, Dict(<<<<s_a, Str(s_b)>>>>)>>>>)}

RecordsLanguage ==
    {Dict(<<>>),
     Dict(<<<<s_language, Str(s_nl)>>>>),
     None,
     List(<<Str(s_nl)>>),
     Str(s_nl)}

RecordsTitle ==
    {Dict(<<>>),
     Dict(<<<<s_title, None>>>>),
     Dict(<<<<s_title, Str(<<" ", "\n">>)>>>>),
     Dict(<<<<s_title, Str(<<" ", "a", " ">>)>>>>),
     Dict(<<<<s_title, Str(s_b)>>>>),
     Dict(<<<<s_title, IntV(5)>>>>),
     Dict(<<<<s_title, List(<<Str(s_x)>>)>>>>)}

RecordsDescription ==
    {Dict(<<>>),
     Dict(<<<<K_description, Str(HelloWorld)>>>>),
     Dict(<<<<K_description, Str(PaddedHelloWorld)>>>>),
     Dict(<<<<K_description, Str(LongA)>>>>),
     Dict(<<<<K_description, Str(NearLongA)>>>>),
     Dict(<<<<K_description, Str(LongB)>>>>),
     Dict(<<<<K_description, IntV(7)>>>>)}

RecordsFlag ==
    {Dict(<<>>),
     Dict(<<<<s_flag, Str(s_ja)>>>>),
     Dict(<<<<s_flag, Str(<<"0">>)>>>>),
     Dict(<<<<s_flag, None>>>>),
     Dict(<<<<s_flag, Str(<<" ", "N", "E", "E", " ">>)>>>>),
     Dict(<<<<s_flag, Bool(TRUE)>>>>),
     Dict(<<<<s_flag, Str(s_maybe)>>>>),
     Dict(<<<<s_flag, Str(<<" ">>)>>>>)}

RecordsSubjects ==
    {Dict(<<>>),
     Dict(<<<<s_subjects, List(<<Str(s_x), Str(s_y)>>)>>>>),
     Dict(<<<<s_subjects, List(<<Str(s_y), Str(s_z)>>)>>>>),
     Dict(<<<<s_subjects, List(<<Str(s_x), None, Str(s_x)>>)>>>>),
     Dict(<<<<s_subjects, Str(<<" ", "y", " ">>)>>>>),
     Dict(<<<<s_subjects, Str(JsonSubjects)>>>>),
     Dict(<<
       <<s_subjects, List(<<IntV(1), Str(<<"1">>), List(<<IntV(1)>>), Dict(<<<<s_k, Str(s_v)>>>>)>>)>>>>),
     Dict(<<<<s_subjects, IntV(5)>>>>)}

RecordsPersons ==
    {Dict(<<>>),
     Dict(<<
       <<s_persons, List(<<Dict(<<<<s_person_id, Str(s_P1)>>, <<s_name, Str(s_Jan)>>>>)>>)>>>>),
     Dict(<<
       <<s_persons, List(<<
           Dict(<<
             <<s_person_id, Str(<<" ", "p", "1", " ">>)>>,
             <<s_role, Str(s_auteur)>>>>)>>)>>>>),
     Dict(<<
       <<s_persons, List(<<
           Dict(<<<<s_person_id, Str(s_P2)>>, <<s_name, Str(s_Piet)>>>>),
           Dict(<<<<s_name, Str(s_Jan)>>>>)>>)>>>>),
     Dict(<<<<s_persons, Dict(<<<<s_person_id, IntV(1)>>, <<s_role, Str(<<>>)>>>>)>>>>),
     Dict(<<<<s_persons, Str(JsonPerson)>>>>),
     Dict(<<
       <<s_persons, List(<<Dict(<<<<s_person_id, Str(s_P1)>>, <<s_role, Str(s_lid)>>>>), Str(s_P1)>>)>>>>)}

RecordsAuthors ==
    {Dict(<<>>),
     Dict(<<
       <<s_authors, List(<<Dict(<<<<s_name, Str(s_Jan)>>, <<s_role, Str(s_auteur)>>>>)>>)>>>>),
     Dict(<<
       <<s_authors, List(<<
           Dict(<<<<s_name, Str(s_Jan)>>, <<s_born, Str(<<"1", "9", "0", "0">>)>>>>)>>)>>>>),
     Dict(<<
       <<s_authors, List(<<
           Dict(<<
             <<s_name, Str(<<"J", "A", "N", " ">>)>>,
             <<s_tags, List(<<Str(s_a)>>)>>>>),
           Dict(<<
             <<s_name, Str(<<"J", "a", "n", "|", "r", "o", "l", "e", "=", "a", "u", "t", "e", "u", "r">>)>>>>)>>)>>>>),
     Dict(<<
       <<s_authors, List(<<
           Dict(<<<<s_tags, List(<<Str(s_a)>>)>>>>),
           Dict(<<<<s_tags, List(<<Str(s_a)>>)>>>>)>>)>>>>),
     Dict(<<
       <<s_authors, List(<<Dict(<<<<s_name, Str(s_Jan)>>, <<s_city, Str(s_Ede)>>>>)>>)>>>>)}

RecordsMeta ==
    {Dict(<<>>),
     Dict(<<<<s_meta, Dict(<<<<s_a, Str(<<"1">>)>>>>)>>>>),
     Dict(<<
       <<s_meta, Dict(<<<<s_a, Str(<<"2">>)>>, <<s_b, Dict(<<<<s_c, Str(s_x)>>>>)>>>>)>>>>),
     Dict(<<
       <<s_meta, Dict(<<<<s_a, None>>, <<s_b, Dict(<<<<s_c, Str(<<>>)>>, <<s_d, Str(s_y)>>>>)>>>>)>>>>),
     Dict(<<<<s_meta, Dict(<<<<s_b, Str(s_s)>>, <<s_e, IntV(0)>>>>)>>>>),
     Dict(<<<<s_meta, Str(s_str)>>>>),
     Dict(<<<<s_meta, Dict(<<<<s_a, List(<<>>)>>, <<s_b, Dict(<<>>)>>>>)>>>>)}

RecordsCount ==
    {Dict(<<>>),
     Dict(<<<<s_count, Str(<<" ", "1", "2", " ">>)>>>>),
     Dict(<<<<s_count, IntV(3)>>, <<s_amount, Str(s_x)>>>>),
     Dict(<<<<s_amount, Bool(TRUE)>>, <<s_count, None>>>>),
     Dict(<<<<s_count, Str(<<"-", "7">>)>>, <<s_amount, IntV(2)>>>>)}

RecordsBadItems ==
    {Dict(<<>>),
     Dict(<<<<s_refs, List(<<Dict(<<<<s_id, Str(<<"1">>)>>>>)>>)>>>>)}

RecordsUntyped ==
    {Dict(<<>>),
     Dict(<<<<s_x, IntV(5)>>, <<s_y, IntV(5)>>, <<s_z, IntV(5)>>>>),
     Dict(<<
       <<s_x, Str(<<" ", "a", " ">>)>>,
       <<s_y, List(<<IntV(1)>>)>>,
       <<s_z, List(<<IntV(1)>>)>>>>)}

\* the entries a list of partial records for sch is built from
PartialRecords(sch) ==
    CASE sch = SchemaArchive -> RecordsArchive
      [] sch = SchemaLoose -> RecordsLoose
      [] sch = SchemaEmpty -> RecordsEmpty
      [] sch = SchemaNoMapping -> RecordsNoMapping
      [] sch = SchemaLanguage -> RecordsLanguage
      [] sch = SchemaTitle -> RecordsTitle
      [] sch = SchemaDescription -> RecordsDescription
      [] sch = SchemaFlag -> RecordsFlag
      [] sch = SchemaSubjects -> RecordsSubjects
      [] sch = SchemaPersons -> RecordsPersons
      [] sch = SchemaAuthors -> RecordsAuthors
      [] sch = SchemaMeta -> RecordsMeta
      [] sch = SchemaCount -> RecordsCount
      [] sch = SchemaBadItems -> RecordsBadItems
      [] sch = SchemaUntyped -> RecordsUntyped

\* the technical metadata of a call: none, or the file's
Technicals == {None, Dict(<<<<s_sha256, Str(s_abc)>>>>)}

\* the filetype guess of a call: none, or the file's suffix
Guesses == {None, Str(s_pdf)}

(***************************************************************************)
(* One call of the aggregator, as the job driver makes it for one file     *)
(* (jobs.py: chunk_dicts = [] ... chunk_dicts.append(recd) ... merged =    *)
(* aggregate_chunk_dicts(chunk_dicts, schema=..., technical=...,           *)
(* filetype_guess=...)): the list of partial records is collected entry by *)
(* entry, then aggregated.                                                 *)
(***************************************************************************)
\* no job runs: the call is looked at by itself
NoJob ==
    /\ total_files = 0
    /\ files_done = 0
    /\ records = <<>>
    /\ fp = 0
    /\ chunks = 0
    /\ calls = <<>>

\* no function is looked at by itself
NoCall ==
    /\ args = <<>>
    /\ ret = <<>>

\* the worker loops
Workers == {1, 2}

\* no job is in the table and no worker loop has started
NoWorker ==
    /\ status = <<>>
    /\ wpc = [w \in Workers |-> "poll"]
    /\ wjob = [w \in Workers |-> 0]
    /\ handed = <<>>

\* no object is looked at by reference
NoHeap ==
    /\ heap = <<>>
    /\ refs = <<>>
    /\ results = <<>>

Init ==
    /\ schema \in Schemas
    /\ technical \in Technicals
    /\ filetype_guess \in Guesses
    /\ chunk_dicts = <<>>
    /\ pc = "collect"
    /\ merged = None
    /\ NoJob
    /\ NoCall
    /\ NoHeap
    /\ NoWorker

\* chunk_dicts.append(recd)
Collect(recd) ==
    /\ pc = "collect"
    /\ Len(chunk_dicts) < MaxChunks
    /\ chunk_dicts' = Append(chunk_dicts, recd)
    /\ UNCHANGED <<workervars, callvars, heapvars, schema, technical, filetype_guess, pc, merged, jobvars>>

\* merged = aggregate_chunk_dicts(chunk_dicts, schema=schema, ...)
Aggregate ==
    /\ pc = "collect"
    /\ merged' = aggregate_chunk_dicts(chunk_dicts, schema, technical, filetype_guess)
    /\ pc' = "done"
    /\ UNCHANGED <<workervars, callvars, heapvars, schema, technical, filetype_guess, chunk_dicts, jobvars>>

Next ==
    \/ \E recd \in PartialRecords(schema) : Collect(recd)
    \/ Aggregate

Spec == Init /\ [][Next]_vars

\* the calls made with a schema that declares an array field
ArraySchemas == {SchemaSubjects, SchemaPersons, SchemaAuthors, SchemaBadItems}

ArrayInit == Init /\ schema \in ArraySchemas

ArraySpec == ArrayInit /\ [][Next]_vars

\* the calls made with a schema that declares an object field
ObjectSchemas == {SchemaArchive, SchemaMeta}

ObjectInit == Init /\ schema \in ObjectSchemas

ObjectSpec == ObjectInit /\ [][Next]_vars

\* the calls made with a schema that declares the fields of the post-pass
SidecarSchemas == {SchemaArchive, SchemaLoose}

SidecarInit == Init /\ schema \in SidecarSchemas

SidecarSpec == SidecarInit /\ [][Next]_vars

\* the calls made with the schema of an integer and a number field, the
\* partial records with finite and non-finite numbers, numbers as text,
\* booleans, and an int beyond the range of float
RecordsNumbers ==
    {Dict(<<>>),
     Dict(<<<<s_count, Str(<<" ", "1", "2", " ">>)>>, <<s_amount, None>>>>),
     Dict(<<<<s_count, IntV(3)>>, <<s_amount, Str(s_x)>>>>),
     Dict(<<<<s_amount, Bool(TRUE)>>, <<s_count, None>>>>),
     Dict(<<<<s_count, Str(<<"-", "7">>)>>, <<s_amount, Flt(2)>>>>),
     Dict(<<<<s_count, Str(<<"-", "I", "n", "f">>)>>, <<s_amount, Str(<<"n", "a", "n">>)>>>>),
     Dict(<<<<s_count, Inf(1)>>, <<s_amount, Inf(1)>>>>),
     Dict(<<<<s_count, NaN>>>>),
     Dict(<<<<s_count, List(<<IntV(1)>>)>>, <<s_amount, HugeInt(1)>>>>)}

NumberInit == Init /\ schema = SchemaCount

NumberNext ==
    \/ \E recd \in RecordsNumbers : Collect(recd)
    \/ Aggregate

NumberSpec == NumberInit /\ [][NumberNext]_vars

\* the entry of the property name in the schema sch
PropertyOf(sch, name) == Item(_schema_properties(sch), name)

\* a schema with a field of every kind: a first-policy and a concat string,
\* a boolean, an integer, an object, an array of scalars and an array of
\* objects
SchemaAllKinds ==
    Dict(<<
      <<K_properties, Dict(<<
          <<s_title, PropertyOf(SchemaTitle, s_title)>>,
          <<K_description, PropertyOf(SchemaDescription, K_description)>>,
          <<s_flag, PropertyOf(SchemaFlag, s_flag)>>,
          <<s_count, PropertyOf(SchemaCount, s_count)>>,
          <<s_meta, PropertyOf(SchemaMeta, s_meta)>>,
          <<s_subjects, PropertyOf(SchemaSubjects, s_subjects)>>,
          <<s_persons, PropertyOf(SchemaPersons, s_persons)>>>>)>>>>)

\* partial records for SchemaAllKinds: values that fill a field, repeat one
\* another, are empty in different ways, or are of another type
RecordsAllKinds ==
    {Dict(<<>>),
     Dict(<<
       <<s_title, Str(<<" ", "a", " ">>)>>,
       <<K_description, Str(HelloWorld)>>,
       <<s_flag, Str(s_ja)>>,
       <<s_count, Str(<<" ", "1", "2", " ">>)>>,
       <<s_meta, Dict(<<<<s_a, None>>, <<s_b, Dict(<<<<s_c, Str(<<>>)>>>>)>>>>)>>,
       <<s_subjects, List(<<Str(s_x), Str(s_y)>>)>>,
       <<s_persons, List(<<
           Dict(<<<<s_person_id, Str(s_P1)>>, <<s_name, Str(s_Jan)>>, <<s_role, None>>>>)>>)>>>>),
     Dict(<<
       <<s_title, Str(s_b)>>,
       <<K_description, Str(PaddedHelloWorld)>>,
       <<s_flag, None>>,
       <<s_count, IntV(3)>>,
       <<s_meta, Dict(<<<<s_a, List(<<>>)>>, <<s_b, Dict(<<<<s_c, Str(s_x)>>>>)>>>>)>>,
       <<s_subjects, List(<<Str(s_y), None, Str(s_z)>>)>>,
       <<s_persons, List(<<
           Dict(<<<<s_person_id, Str(<<" ", "p", "1", " ">>)>>, <<s_role, Str(<<>>)>>>>),
           Dict(<<<<s_name, Str(s_Jan)>>>>)>>)>>>>),
     Dict(<<
       <<s_title, None>>,
       <<K_description, IntV(7)>>,
       <<s_flag, Str(s_maybe)>>,
       <<s_count, Str(s_x)>>,
       <<s_meta, Str(s_str)>>,
       <<s_subjects, Str(<<" ", "y", " ">>)>>,
       <<s_persons, Str(JsonPerson)>>>>),
     Dict(<<
       <<s_title, Str(<<" ", "\n">>)>>,
       <<K_description, Str(LongA)>>,
       <<s_flag, Str(<<"0">>)>>,
       <<s_meta, Dict(<<<<s_a, Str(<<"1">>)>>, <<s_b, Dict(<<>>)>>>>)>>,
       <<s_subjects, Str(JsonSubjects)>>,
       <<s_persons, Dict(<<<<s_person_id, IntV(1)>>, <<s_role, Str(<<>>)>>>>)>>>>)}

LawInit ==
    /\ schema = SchemaAllKinds
    /\ technical = None
    /\ filetype_guess = None
    /\ chunk_dicts = <<>>
    /\ pc = "collect"
    /\ merged = None
    /\ NoJob
    /\ NoCall
    /\ NoHeap
    /\ NoWorker

LawNext ==
    \/ \E recd \in RecordsAllKinds : Collect(recd)
    \/ Aggregate

LawSpec == LawInit /\ [][LawNext]_vars

(***************************************************************************)
(* The job driver (jobs.py, process_job): the files of a job one after the *)
(* other; for each file the text is extracted, cut into chunks, one        *)
(* extraction call made per chunk, the partial records aggregated, the     *)
(* record saved and the counter of the job incremented.                    *)
(***************************************************************************)
s_addresses == <<"a", "d", "d", "r", "e", "s", "s", "e", "s">>
s_country == <<"c", "o", "u", "n", "t", "r", "y">>
s_creator == <<"c", "r", "e", "a", "t", "o", "r">>
s_date_end == <<"d", "a", "t", "e", "_", "e", "n", "d">>
s_date_start == <<"d", "a", "t", "e", "_", "s", "t", "a", "r", "t">>
s_extension == <<"e", "x", "t", "e", "n", "s", "i", "o", "n">>
s_filename == <<"f", "i", "l", "e", "n", "a", "m", "e">>
s_house_number == <<"h", "o", "u", "s", "e", "_", "n", "u", "m", "b", "e", "r">>
s_postal_code == <<"p", "o", "s", "t", "a", "l", "_", "c", "o", "d", "e">>
s_retention == <<"r", "e", "t", "e", "n", "t", "i", "o", "n">>
s_rights == <<"r", "i", "g", "h", "t", "s">>
s_sensitivity == <<"s", "e", "n", "s", "i", "t", "i", "v", "i", "t", "y">>
s_size_bytes == <<"s", "i", "z", "e", "_", "b", "y", "t", "e", "s">>
s_street == <<"s", "t", "r", "e", "e", "t">>

\* a field-schema entry, from its "type"
Typed(t) == Dict(<<<<K_type, t>>>>)

\* ["string", "null"]
StringOrNull == List(<<Str(T_string), Str(T_null)>>)

\* the names of the properties of an address, which are its required names
AddressNames == <<s_street, s_house_number, s_postal_code, s_city, s_country>>

\* the entries of DEFAULT_SCHEMA the aggregator reads: "type", "items",
\* "properties", "required"
DEFAULT_SCHEMA ==
    Dict(<<
      <<K_type, Str(T_object)>>,
      <<K_properties, Dict(<<
          <<s_title, Typed(StringOrNull)>>,
          <<K_description, Typed(Str(T_string))>>,
          <<s_creator, Typed(StringOrNull)>>,
          <<s_date_start, Typed(StringOrNull)>>,
          <<s_date_end, Typed(StringOrNull)>>,
          <<s_subjects, Dict(<<<<K_type, Str(T_array)>>, <<K_items, Typed(Str(T_string))>>>>)>>,
          <<s_language, Typed(Str(T_string))>>,
          <<s_addresses, Dict(<<
              <<K_type, Str(T_array)>>,
              <<K_items, Dict(<<
                  <<K_type, Str(T_object)>>,
                  <<K_properties,
                    Dict([i \in DOMAIN AddressNames |-> <<AddressNames[i], Typed(StringOrNull)>>])>>,
                  <<K_required,
                    List([i \in DOMAIN AddressNames |-> Str(AddressNames[i])])>>>>)>>>>)>>,
          <<s_rights, Typed(Str(T_string))>>,
          <<s_sensitivity, Typed(StringOrNull)>>,
          <<s_retention, Typed(Str(T_string))>>,
          <<K_filetype, Typed(Str(T_string))>>,
          <<K_technical, Typed(Str(T_object))>>>>)>>>>)

\* schema = schema or DEFAULT_SCHEMA
SchemaOrDefault(sch) == IF Truthy(sch) THEN sch ELSE DEFAULT_SCHEMA

\* the schema option of a job: none, empty, or the job's own
SchemaOptions == {None, EmptyDict, SchemaTitle}

\* the partial records the extraction calls of a job return
JobRecords(sch) ==
    IF sch = DEFAULT_SCHEMA
    THEN {Dict(<<<<s_title, Str(<<"T">>)>>, <<s_subjects, List(<<Str(s_x)>>)>>>>),
          Dict(<<<<s_title, None>>, <<K_filetype, Str(s_doc)>>>>)}
    ELSE {Dict(<<<<s_title, Str(<<"T">>)>>>>), Dict(<<<<s_title, None>>>>)}

\* model_to_dict(FileTechnical(path=..., filename=..., extension=...,
\* size_bytes=..., sha256=...))
FileTechnical(path, filename, extension, size_bytes, sha256) ==
    Dict(<<<<s_path, path>>, <<s_filename, filename>>, <<s_extension, extension>>,
           <<s_size_bytes, size_bytes>>, <<s_sha256, sha256>>>>)

\* model_to_dict(ArchiveMetadata(technical=tech, filetype=guess)): the
\* fields of ArchiveMetadata with their defaults
ArchiveMetadata(tech, guess) ==
    Dict(<<<<s_title, None>>, <<K_description, None>>, <<s_creator, None>>,
           <<s_date_start, None>>, <<s_date_end, None>>, <<s_subjects, EmptyList>>,
           <<s_language, None>>, <<s_rights, None>>, <<s_sensitivity, None>>,
           <<s_retention, None>>, <<K_filetype, guess>>, <<K_technical, tech>>>>)

\* fp.suffix.lower().lstrip("."): the suffix of the file, empty when the
\* name has none
Suffixes == {Str(s_pdf), Str(<<>>)}

\* the values of max_files a job is run with
MaxFilesOptions == {-1, 1, 200}

\* len(files[: max(0, int(max_files))]) for a list of found files
CutLen(found, max_files) ==
    IF max_files <= 0 THEN 0 ELSE IF found < max_files THEN found ELSE max_files

JobInit ==
    /\ schema \in {SchemaOrDefault(sch) : sch \in SchemaOptions}
    /\ technical = None
    /\ filetype_guess = None
    /\ chunk_dicts = <<>>
    /\ merged = None
    /\ pc = "start"
    /\ NoJob
    /\ NoCall
    /\ NoHeap
    /\ NoWorker

\* files = walk_files(...)[: max(0, int(max_files))]; set_job_total_files
WalkFiles(found, max_files) ==
    /\ pc = "start"
    /\ total_files' = CutLen(found, max_files)
    /\ pc' = "files"
    /\ UNCHANGED <<workervars, callvars, heapvars, schema, technical, filetype_guess, chunk_dicts, merged,
                   files_done, records, fp, chunks, calls>>

\* for fp in files: the next file, or the end of the job
NextFile ==
    /\ pc = "files"
    /\ IF fp < total_files
       THEN fp' = fp + 1 /\ pc' = "extract"
       ELSE fp' = fp /\ pc' = "end"
    /\ UNCHANGED <<workervars, callvars, heapvars, schema, technical, filetype_guess, chunk_dicts, merged,
                   total_files, files_done, records, chunks, calls>>

\* extract_text, fp.stat() or sha256_file raises: "Failed on ..."
ExtractRaises ==
    /\ pc = "extract"
    /\ pc' = "files"
    /\ UNCHANGED <<workervars, callvars, heapvars, schema, technical, filetype_guess, chunk_dicts, merged, jobvars>>

\* text, tech and filetype_guess of the file; blank says not text.strip(),
\* n is the number of chunks chunk_text cuts the text in
ExtractText(suffix, blank, n) ==
    /\ pc = "extract"
    /\ technical' = FileTechnical(Str(s_p), Str(s_p), suffix, IntV(5), Str(s_abc))
    /\ filetype_guess' = suffix
    /\ chunk_dicts' = <<>>
    /\ calls' = <<>>
    /\ chunks' = IF blank THEN 0 ELSE n
    /\ pc' = IF blank THEN "empty" ELSE "chunks"
    /\ UNCHANGED <<workervars, callvars, heapvars, schema, merged, total_files, files_done, records, fp>>

\* save_record(job_id, fp.name, record)
save_record(filename, record) == records' = Append(records, <<filename, record>>)

\* the file without text: save_record(..., model_to_dict(rec))
SaveEmpty ==
    /\ pc = "empty"
    /\ save_record(fp, ArchiveMetadata(technical, filetype_guess))
    /\ pc' = "increment"
    /\ UNCHANGED <<workervars, callvars, heapvars, schema, technical, filetype_guess, chunk_dicts, merged,
                   total_files, files_done, fp, chunks, calls>>

\* call_ollama_structured returns recd: chunk_dicts.append(recd)
ChunkReturns(recd) ==
    /\ pc = "chunks"
    /\ Len(calls) < chunks
    /\ chunk_dicts' = Append(chunk_dicts, recd)
    /\ calls' = Append(calls, recd)
    /\ UNCHANGED <<workervars, callvars, heapvars, schema, technical, filetype_guess, merged, pc,
                   total_files, files_done, records, fp, chunks>>

\* a failed call that ends the loop over the chunks of the file
ChunkRaisesEndsFile ==
    /\ pc = "chunks"
    /\ Len(calls) < chunks
    /\ calls' = Append(calls, Raise("Exception"))
    /\ pc' = "files"
    /\ UNCHANGED <<workervars, callvars, heapvars, schema, technical, filetype_guess, chunk_dicts, merged,
                   total_files, files_done, records, fp, chunks>>

\* call_ollama_structured raises: "Model failed on chunk ..."
ChunkRaises ==
    /\ pc = "chunks"
    /\ Len(calls) < chunks
    /\ calls' = Append(calls, Raise("Exception"))
    /\ UNCHANGED <<workervars, callvars, heapvars, schema, technical, filetype_guess, chunk_dicts, merged, pc,
                   total_files, files_done, records, fp, chunks>>

\* merged = aggregate_chunk_dicts(chunk_dicts, schema=schema,
\* technical=model_to_dict(tech), filetype_guess=filetype_guess)
AggregateFile ==
    /\ pc = "chunks"
    /\ Len(calls) = chunks
    /\ merged' = aggregate_chunk_dicts(chunk_dicts, schema, technical, filetype_guess)
    /\ pc' = IF IsRaise(merged') THEN "files" ELSE "save"
    /\ UNCHANGED <<workervars, callvars, heapvars, schema, technical, filetype_guess, chunk_dicts, jobvars>>

\* save_record(job_id, fp.name, merged)
SaveMerged ==
    /\ pc = "save"
    /\ save_record(fp, merged)
    /\ pc' = "increment"
    /\ UNCHANGED <<workervars, callvars, heapvars, schema, technical, filetype_guess, chunk_dicts, merged,
                   total_files, files_done, fp, chunks, calls>>

\* increment_job_files_done(job_id)
increment_job_files_done ==
    /\ pc = "increment"
    /\ files_done' = files_done + 1
    /\ pc' = "files"
    /\ UNCHANGED <<workervars, callvars, heapvars, schema, technical, filetype_guess, chunk_dicts, merged,
                   total_files, records, fp, chunks, calls>>

\* save_record raises (sqlite3 error): no row is added, "Failed on ..."
SaveRaises ==
    /\ pc \in {"empty", "save"}
    /\ pc' = "files"
    /\ UNCHANGED <<workervars, callvars, heapvars, schema, technical, filetype_guess, chunk_dicts, merged,
                   jobvars>>

\* increment_job_files_done raises (sqlite3 error) after the record was
\* saved: the counter stays, "Failed on ..."
IncrementRaises ==
    /\ pc = "increment"
    /\ pc' = "files"
    /\ UNCHANGED <<workervars, callvars, heapvars, schema, technical, filetype_guess, chunk_dicts, merged,
                   jobvars>>

\* the steps of a job whose database calls succeed
JobStepsNext ==
    \/ \E found \in 0..MaxFiles, max_files \in MaxFilesOptions : WalkFiles(found, max_files)
    \/ NextFile
    \/ ExtractRaises
    \/ \E suffix \in Suffixes, blank \in BOOLEAN, n \in 1..MaxJobChunks :
           ExtractText(suffix, blank, n)
    \/ SaveEmpty
    \/ \E recd \in JobRecords(schema) : ChunkReturns(recd)
    \/ ChunkRaises
    \/ AggregateFile
    \/ SaveMerged
    \/ increment_job_files_done

JobNext ==
    \/ JobStepsNext
    \/ SaveRaises
    \/ IncrementRaises

JobSpec == JobInit /\ [][JobNext]_vars

\* the jobs whose database calls succeed
JobStepsSpec == JobInit /\ [][JobStepsNext]_vars

(***************************************************************************)
(* The merges of objects with the objects held by reference, as Python     *)
(* holds them (_deep_merge_objects, _merge_objects,                        *)
(* _merge_array_of_objects): a dict is an entry of heap, a value of a dict  *)
(* is a scalar or list, or Ref(a) for the dict at place a, and an          *)
(* assignment out[k] = v changes the entry of out, for every holder of a   *)
(* reference to it.  Lists are held by value: no merge assigns to one it   *)
(* was given.                                                              *)
(***************************************************************************)
Ref(a) == <<"ref", a>>
IsRef(x) == x[1] = "ref"

\* the value x put in the heap h: <<the heap after, the reference or x>>
RECURSIVE Store(_, _)
RECURSIVE StoreMembers(_, _, _)
StoreMembers(h, pairs, acc) ==
    IF pairs = <<>> THEN <<h, acc>>
    ELSE StoreMembers(Store(h, Head(pairs)[2])[1], Tail(pairs),
                      Append(acc, <<Head(pairs)[1], Store(h, Head(pairs)[2])[2]>>))

StoreDict(hm) == <<Append(hm[1], Dict(hm[2])), Ref(Len(hm[1]) + 1)>>

Store(h, x) == IF IsDict(x) THEN StoreDict(StoreMembers(h, x[2], <<>>)) ELSE <<h, x>>

\* the values xs put in the heap h one after the other: <<heap, references>>
RECURSIVE StoreAll(_, _, _)
StoreAll(h, xs, acc) ==
    IF xs = <<>> THEN <<h, acc>>
    ELSE StoreAll(Store(h, Head(xs))[1], Tail(xs), Append(acc, Store(h, Head(xs))[2]))

\* the value a reference stands for in the heap h
RECURSIVE Deref(_, _)
Deref(h, x) ==
    IF IsRef(x)
    THEN Dict([i \in DOMAIN h[x[2]][2] |-> <<h[x[2]][2][i][1], Deref(h, h[x[2]][2][i][2])>>])
    ELSE x

\* out = a: the accumulator is the object a itself
DictAlias(h, a) == <<h, a>>

\* out = dict(a): a new object with the entries of a
DictCopy(h, a) == <<Append(h, h[a[2]]), Ref(Len(h) + 1)>>

\* out[k] = v
SetItem(h, out, k, v) == [h EXCEPT ![out[2]] = Put(@, k, v)]

\* out[k] in (None, "", [], {})
HeldEmpty(h, x) == IF IsRef(x) THEN h[x[2]] = EmptyDict ELSE InEmpties(x)

\* _deep_merge_objects(a, b) on references: <<heap after, reference to out>>
RECURSIVE HeapDeepMerge(_, _, _)
RECURSIVE HeapMergeLoop(_, _, _, _)
HeapAssignMerged(r, out, k, items, i) ==
    HeapMergeLoop(SetItem(r[1], out, k, r[2]), out, items, i + 1)

\* for k, v in b.items(), from the i-th entry
HeapMergeLoop(h, out, items, i) ==
    IF i > Len(items) THEN <<h, out>>
    ELSE IF ~Has(h[out[2]], items[i][1]) \/ HeldEmpty(h, Item(h[out[2]], items[i][1]))
    THEN HeapMergeLoop(SetItem(h, out, items[i][1], items[i][2]), out, items, i + 1)
    ELSE IF IsRef(Item(h[out[2]], items[i][1])) /\ IsRef(items[i][2])
    THEN HeapAssignMerged(HeapDeepMerge(h, Item(h[out[2]], items[i][1]), items[i][2]),
                          out, items[i][1], items, i)
    ELSE HeapMergeLoop(h, out, items, i + 1)

HeapMergeFrom(c, b) == HeapMergeLoop(c[1], c[2], c[1][b[2]][2], 1)

HeapDeepMerge(h, a, b) == HeapMergeFrom(DictCopy(h, a), b)

\* the loop of _merge_objects on references, r the heap and the reference
\* to out
RECURSIVE HeapFoldObjects(_, _)
HeapFoldObjects(r, vs) ==
    IF vs = <<>> THEN r
    ELSE IF ~IsRef(Head(vs)) THEN HeapFoldObjects(r, Tail(vs))
    ELSE HeapFoldObjects(HeapDeepMerge(r[1], r[2], Head(vs)), Tail(vs))

\* _merge_objects(values) on references: out = {} is a new object
HeapMergeObjects(h, vs) == HeapFoldObjects(<<Append(h, EmptyDict), Ref(Len(h) + 1)>>, vs)

\* merged_by_sig[sig] = _deep_merge_objects(merged_by_sig[sig], item)
HeapPutMerged(r, merged_by_sig, sig) == <<r[1], Put(merged_by_sig, sig, r[2])>>

\* one pass of the loop of _merge_array_of_objects on references, r the
\* heap and merged_by_sig
HeapMergeItem(r, sig, item) ==
    IF ~Has(r[2], sig) THEN <<r[1], Put(r[2], sig, item)>>
    ELSE HeapPutMerged(HeapDeepMerge(r[1], Item(r[2], sig), item), r[2], sig)

RECURSIVE HeapMergeBySig(_, _, _)
HeapMergeBySig(r, items, keys) ==
    IF items = <<>> THEN r
    ELSE IF ~IsRef(Head(items)) THEN HeapMergeBySig(r, Tail(items), keys)
    ELSE HeapMergeBySig(HeapMergeItem(r, _object_signature(Deref(r[1], Head(items)), keys),
                                      Head(items)),
                        Tail(items), keys)

\* [merged_by_sig[s] for s in order], with the heap
HeapValuesInOrder(r) == <<r[1], ValuesInOrder(r[2])>>

\* _merge_array_of_objects on the references items
HeapMergeArray(h, items, keys) == HeapValuesInOrder(HeapMergeBySig(<<h, EmptyDict>>, items, keys))

\* the values the merges are called with: objects that share an identity,
\* with nested objects that fill one another, and values that are no object
HeapPool ==
    {None,
     Dict(<<<<s_id, Str(<<"1">>)>>, <<s_meta, Dict(<<<<s_a, Str(s_x)>>>>)>>>>),
     Dict(<<<<s_id, Str(<<"1">>)>>, <<s_meta, Dict(<<<<s_b, Str(s_y)>>>>)>>, <<s_name, Str(s_Jan)>>>>),
     Dict(<<<<s_id, Str(<<"2">>)>>, <<s_meta, Dict(<<>>)>>>>),
     Dict(<<<<s_id, Str(<<"1">>)>>,
            <<s_meta, Dict(<<<<s_a, Str(<<>>)>>, <<s_c, Dict(<<<<s_d, Str(s_z)>>>>)>>>>)>>>>)}

\* the lists of at most n values of HeapPool
RECURSIVE ListsUpTo(_)
ListsUpTo(n) ==
    IF n = 0 THEN {<<>>}
    ELSE ListsUpTo(n - 1) \cup {Append(l, x) : l \in {m \in ListsUpTo(n - 1) : Len(m) = n - 1}, x \in HeapPool}

\* the identity keys of the items of the array
HeapKeys == <<Str(s_id)>>

HeapStart(given, stored) ==
    /\ chunk_dicts = given
    /\ heap = stored[1]
    /\ refs = stored[2]

\* a list of values is given, each object of it held in the heap; no call
\* has been made
HeapInit ==
    /\ \E given \in ListsUpTo(MaxChunks) : HeapStart(given, StoreAll(<<>>, given, <<>>))
    /\ results = <<>>
    /\ schema = None
    /\ technical = None
    /\ filetype_guess = None
    /\ merged = None
    /\ pc = "heap"
    /\ NoJob
    /\ NoCall
    /\ NoWorker

HeapReturn(kind, r) ==
    /\ heap' = r[1]
    /\ results' = Append(results, <<kind, r[2]>>)

\* out = _merge_objects(values)
CallMergeObjects ==
    /\ pc = "heap"
    /\ Len(results) < MaxCalls
    /\ HeapReturn("object", HeapMergeObjects(heap, refs))
    /\ UNCHANGED <<workervars, callvars, schema, technical, filetype_guess, chunk_dicts, pc, merged, jobvars,
                   refs>>

\* out = _merge_array_of_objects(values, items_schema), every value one item
CallMergeArray ==
    /\ pc = "heap"
    /\ Len(results) < MaxCalls
    /\ HeapReturn("array", HeapMergeArray(heap, refs, HeapKeys))
    /\ UNCHANGED <<workervars, callvars, schema, technical, filetype_guess, chunk_dicts, pc, merged, jobvars,
                   refs>>

HeapNext == CallMergeObjects \/ CallMergeArray

HeapSpec == HeapInit /\ [][HeapNext]_vars

(***************************************************************************)
(* One call of _derive_identity_keys, looked at by itself: args is the item *)
(* schema it is called with, ret the list of keys it returns.  The item     *)
(* schemas are built from two lists of property names (one with names of    *)
(* the identifier vocabulary, one without), every property with one of the  *)
(* entries of KeyTypes, and a list of required names.                       *)
(***************************************************************************)
\* the number of properties of an item schema
MaxProps == 5

HintedPropNames == <<<<"i", "d">>,
                     <<"n", "m">>,
                     <<"a", "_", "I", "D">>,
                     <<"i", "d", "x">>,
                     <<"r", "e", "f">>,
                     <<"t">>,
                     <<"K", "e", "y", "_", "2">>,
                     <<"u">>>>

PlainPropNames == <<<<"n", "m">>,
                    <<"i", "d", "x">>,
                    <<"t">>,
                    <<"u">>,
                    <<"v">>,
                    <<"w">>,
                    <<"x">>,
                    <<"y">>>>

\* the entries of a property map: string, nullable integer, array, no type
KeyTypes ==
    { Dict(<<<<K_type, Str(T_string)>>>>),
      Dict(<<<<K_type, List(<<Str(T_null), Str(T_integer)>>)>>>>),
      Dict(<<<<K_type, Str(T_array)>>>>),
      EmptyDict }

\* the property map with the names of names, name i with the entry of[i]
PropsOf(names, of) == Dict([i \in DOMAIN of |-> <<names[i], of[i]>>])

\* the required lists for a property map with the first n names of names: the
\* names in reverse order, and an undeclared name before the first name
RequiredLists(names, n) ==
    << List([i \in 1..n |-> Str(names[n + 1 - i])]),
       List(<<Str(<<"z", "z">>)>> \o [i \in 1..(IF n > 0 THEN 1 ELSE 0) |-> Str(names[i])]) >>

\* the item schema with the property map props, without a required list
\* (r = 0) or with the one at place r of reqs
ItemSchema(props, reqs, r) ==
    IF r = 0 THEN Dict(<<<<K_properties, props>>>>)
    ELSE Dict(<<<<K_properties, props>>, <<K_required, reqs[r]>>>>)

KeysInit ==
    /\ \E names \in {HintedPropNames, PlainPropNames} : \E n \in 0..MaxProps :
           \E of \in [1..n -> KeyTypes] : \E r \in 0..2 :
               args = <<ItemSchema(PropsOf(names, of), RequiredLists(names, n), r)>>
    /\ ret = <<>>
    /\ schema = None
    /\ technical = None
    /\ filetype_guess = None
    /\ chunk_dicts = <<>>
    /\ merged = None
    /\ pc = "keys"
    /\ NoJob
    /\ NoHeap
    /\ NoWorker

\* keys = _derive_identity_keys(items_schema)
DeriveKeys ==
    /\ pc = "keys"
    /\ ret' = <<_derive_identity_keys(args[1])>>
    /\ pc' = "returned"
    /\ UNCHANGED <<workervars, heapvars, schema, technical, filetype_guess, chunk_dicts, merged, jobvars,
                   args>>

KeysNext == DeriveKeys

KeysSpec == KeysInit /\ [][KeysNext]_vars

(***************************************************************************)
(* One call of _schema_type, looked at by itself: args is the field-schema  *)
(* it is called with, ret the kind it returns.                              *)
(***************************************************************************)
\* the number of entries of a list of types
MaxTypeEntries == 2

SixKinds ==
    {Str(T_string), Str(T_integer), Str(T_number), Str(T_boolean), Str(T_array),
     Str(T_object)}

\* the entries of a list of types: kinds, "null", a name that is no kind, None
TypeEntries ==
    {Str(T_null), Str(T_string), Str(T_integer), Str(T_array), Str(T_object),
     Str(<<"d", "a", "t", "e">>), None}

\* the values of "type": one name, a list of entries, or no name
TypeValues ==
    SixKinds \cup {Str(T_null), Str(<<"d", "a", "t", "e">>), Str(<<>>), None, IntV(5)}
    \cup UNION {{List(es) : es \in [1..n -> TypeEntries]} : n \in 0..MaxTypeEntries}

\* the field-schemas: with a "type", without one, and values that are no mapping
FieldSchemas ==
    {Dict(<<<<K_type, t>>>>) : t \in TypeValues}
    \cup {Dict(<<<<K_items, Dict(<<<<K_type, Str(T_string)>>>>)>>, <<K_type, t>>>>) :
              t \in {Str(T_array), List(<<Str(T_array), Str(T_null)>>)}}
    \cup {EmptyDict, Dict(<<<<K_items, EmptyDict>>>>), None, Str(<<>>), Str(T_string),
          List(<<Str(T_string)>>)}

KindInit ==
    /\ args \in {<<prop_schema>> : prop_schema \in FieldSchemas}
    /\ ret = <<>>
    /\ schema = None
    /\ technical = None
    /\ filetype_guess = None
    /\ chunk_dicts = <<>>
    /\ merged = None
    /\ pc = "kind"
    /\ NoJob
    /\ NoHeap
    /\ NoWorker

\* t = _schema_type(prop_schema)
ResolveKind ==
    /\ pc = "kind"
    /\ ret' = <<_schema_type(args[1])>>
    /\ pc' = "returned"
    /\ UNCHANGED <<workervars, heapvars, schema, technical, filetype_guess, chunk_dicts, merged, jobvars,
                   args>>

KindNext == ResolveKind

KindSpec == KindInit /\ [][KindNext]_vars

(***************************************************************************)
(* The chunker (chunking.py, chunk_text): one call, iteration by iteration. *)
(* The text is its length; a chunk text[start:end] is the span              *)
(* <<start, end>>.  args holds the arguments, ret the local variables       *)
(* chunks and start of the loop.                                            *)
(***************************************************************************)
\* the largest max_chunks a call is made with
MaxSpans == 4

\* the floor of chunk_size
MinChunkSize == 200

TextLengths == {0, 1, 150, 200, 201, 450, 1000}
ChunkSizes == {-5, 100, 200, 250}
Overlaps == {-1, 0, 50, 200, 300}
MaxChunksOptions == {-1, 0, 1, 2, MaxSpans}

Greater(a, b) == IF a > b THEN a ELSE b
Smaller(a, b) == IF a < b THEN a ELSE b

\* chunk_size = max(200, int(chunk_size)); overlap = max(0, int(overlap));
\* max(1, int(max_chunks))
EffectiveChunkSize == Greater(MinChunkSize, args.chunk_size)
EffectiveOverlap == Greater(0, args.overlap)
ChunkCap == Greater(1, args.max_chunks)

\* end = min(start + chunk_size, n)
SpanEnd(start, chunk_size, n) == Smaller(start + chunk_size, n)

\* a next start that leaves the overlap out and skips a character
NextStartSkipping(end, overlap) == end + 1

\* start = max(0, end - overlap)
NextStart(end, overlap) == Greater(0, end - overlap)

ChunkInit ==
    /\ args \in [text : TextLengths, chunk_size : ChunkSizes, overlap : Overlaps,
                 max_chunks : MaxChunksOptions]
    /\ ret = [chunks |-> <<>>, start |-> 0]
    /\ schema = None
    /\ technical = None
    /\ filetype_guess = None
    /\ chunk_dicts = <<>>
    /\ merged = None
    /\ pc = "chunk_text"
    /\ NoJob
    /\ NoHeap
    /\ NoWorker

\* if not text: return []
ReturnNoChunks ==
    /\ pc = "chunk_text"
    /\ args.text = 0
    /\ pc' = "returned"
    /\ UNCHANGED <<workervars, heapvars, schema, technical, filetype_guess, chunk_dicts, merged, jobvars,
                   callvars>>

\* one iteration of the while loop, left by the break when end == n
AppendChunk ==
    /\ pc = "chunk_text"
    /\ args.text # 0
    /\ ret.start < args.text
    /\ Len(ret.chunks) < ChunkCap
    /\ ret' = [chunks |-> Append(ret.chunks,
                                 <<ret.start,
                                   SpanEnd(ret.start, EffectiveChunkSize, args.text)>>),
               start |-> IF SpanEnd(ret.start, EffectiveChunkSize, args.text) = args.text
                         THEN ret.start
                         ELSE NextStart(SpanEnd(ret.start, EffectiveChunkSize, args.text),
                                        EffectiveOverlap)]
    /\ pc' = IF SpanEnd(ret.start, EffectiveChunkSize, args.text) = args.text
             THEN "returned" ELSE "chunk_text"
    /\ UNCHANGED <<workervars, heapvars, schema, technical, filetype_guess, chunk_dicts, merged, jobvars,
                   args>>

\* the condition of the while loop is false: return chunks
ReturnChunks ==
    /\ pc = "chunk_text"
    /\ args.text # 0
    /\ ~(ret.start < args.text /\ Len(ret.chunks) < ChunkCap)
    /\ pc' = "returned"
    /\ UNCHANGED <<workervars, heapvars, schema, technical, filetype_guess, chunk_dicts, merged, jobvars,
                   callvars>>

ChunkNext == ReturnNoChunks \/ AppendChunk \/ ReturnChunks

ChunkSpec == ChunkInit /\ [][ChunkNext]_vars

\* a call that has started goes on until it returns
ChunkLiveSpec == ChunkSpec /\ WF_vars(ChunkNext)

(***************************************************************************)
(* The worker loops (worker.py, main) on the job table (db.py): jobs are    *)
(* created with the status "queued"; a loop takes the oldest queued job,    *)
(* sets it to "running", hands it to process_job and sets it to "finished"  *)
(* or "failed: ..." afterwards.  Every call of a database helper is one     *)
(* transaction of its own, so the loops interleave between the calls.       *)
(***************************************************************************)
\* the number of jobs created
MaxJobs == 2

WorkerInit ==
    /\ schema = None
    /\ technical = None
    /\ filetype_guess = None
    /\ chunk_dicts = <<>>
    /\ merged = None
    /\ pc = "worker"
    /\ NoJob
    /\ NoCall
    /\ NoHeap
    /\ NoWorker

\* create_job(...): a new row with the status "queued"
create_job ==
    /\ pc = "worker"
    /\ Len(status) < MaxJobs
    /\ status' = Append(status, "queued")
    /\ UNCHANGED <<heapvars, callvars, schema, technical, filetype_guess, chunk_dicts, pc,
                   merged, jobvars, wpc, wjob, handed>>

\* the rows with status = 'queued'
QueuedJobs == {j \in DOMAIN status : status[j] = "queued"}

\* SELECT * FROM jobs WHERE status = 'queued' ORDER BY created_at ASC LIMIT 1
OldestQueued == CHOOSE j \in QueuedJobs : \A k \in QueuedJobs : j <= k

\* job = get_next_queued_job(), with a job in the queue (without one the
\* loop sleeps and polls again)
get_next_queued_job(w) ==
    /\ pc = "worker"
    /\ wpc[w] = "poll"
    /\ QueuedJobs # {}
    /\ wjob' = [wjob EXCEPT ![w] = OldestQueued]
    /\ wpc' = [wpc EXCEPT ![w] = "mark"]
    /\ UNCHANGED <<heapvars, callvars, schema, technical, filetype_guess, chunk_dicts, pc,
                   merged, jobvars, status, handed>>

\* update_job_status(job_id, status)
update_job_status(job_id, to) == status' = [status EXCEPT ![job_id] = to]

\* update_job_status(job_id, "running"), then process_job(job_id, ...) is
\* called
MarkRunning(w) ==
    /\ pc = "worker"
    /\ wpc[w] = "mark"
    /\ update_job_status(wjob[w], "running")
    /\ handed' = Append(handed, wjob[w])
    /\ wpc' = [wpc EXCEPT ![w] = "process"]
    /\ UNCHANGED <<heapvars, callvars, schema, technical, filetype_guess, chunk_dicts, pc,
                   merged, jobvars, wjob>>

\* process_job returned: update_job_status(job_id, "finished")
ProcessReturns(w) ==
    /\ pc = "worker"
    /\ wpc[w] = "process"
    /\ update_job_status(wjob[w], "finished")
    /\ wpc' = [wpc EXCEPT ![w] = "poll"]
    /\ UNCHANGED <<heapvars, callvars, schema, technical, filetype_guess, chunk_dicts, pc,
                   merged, jobvars, wjob, handed>>

\* process_job raised: update_job_status(job_id, f"failed: {e}")
ProcessRaises(w) ==
    /\ pc = "worker"
    /\ wpc[w] = "process"
    /\ update_job_status(wjob[w], "failed")
    /\ wpc' = [wpc EXCEPT ![w] = "poll"]
    /\ UNCHANGED <<heapvars, callvars, schema, technical, filetype_guess, chunk_dicts, pc,
                   merged, jobvars, wjob, handed>>

\* one step of the worker loop w
WorkerStep(w) ==
    \/ get_next_queued_job(w)
    \/ MarkRunning(w)
    \/ ProcessReturns(w)
    \/ ProcessRaises(w)

WorkerNext ==
    \/ create_job
    \/ \E w \in Workers : WorkerStep(w)

WorkerSpec == WorkerInit /\ [][WorkerNext]_vars

\* the job table with one worker loop only
SoloNext ==
    \/ create_job
    \/ WorkerStep(1)

SoloWorkerSpec == WorkerInit /\ [][SoloNext]_vars

(***************************************************************************)
(* The properties of a call, stated on the state after the call (pc =      *)
(* "done"): chunk_dicts is the list the call was made with, merged what it *)
(* gave.                                                                   *)
(***************************************************************************)
\* the call has ended
Done == pc = "done"
\* the call has ended and returned a record
Returned == Done /\ IsDict(merged)

\* the property names the schema declares: the keys of its "properties"
\* mapping, none when it has no such mapping
DeclaredNames ==
    IF IsDict(schema) /\ Has(schema, K_properties) /\ IsDict(Item(schema, K_properties))
    THEN {Item(schema, K_properties)[2][i][1] : i \in DOMAIN Item(schema, K_properties)[2]}
    ELSE {}

\* the field-schema entry the schema declares for key
EntryOf(key) == Item(Item(schema, K_properties), key)

\* the kind the field key is classified as
KindOf(key) == _schema_type(DictOrEmpty(EntryOf(key)))

\* the per-chunk values of key, null where absent
Candidates(key) == [i \in DOMAIN chunk_dicts |-> Get(chunk_dicts[i], key)]

\* no key occurs twice in the dict d
NoKeyTwice(d) == \A i, j \in DOMAIN d[2] : d[2][i][1] = d[2][j][1] => i = j

\* C1 (as stated): for any schema and any list of partial records, empty or
\* not, the keys of the returned record are exactly the property names the
\* schema declares.
C1_KeySetExact ==
    Returned => KeysOf(merged) = DeclaredNames /\ NoKeyTwice(merged)

\* C1 (amended): for any schema and any non-empty list of partial records the
\* keys of the returned record are exactly the property names the schema
\* declares, none missing, none undeclared, none twice.
C1_KeySetExactNonEmpty ==
    (Returned /\ chunk_dicts # <<>>) =>
        KeysOf(merged) = DeclaredNames /\ NoKeyTwice(merged)

\* a call with a record that carries an undeclared key and leaves a declared
\* one out: the result has the three declared keys
C1_Witness ==
    /\ Returned
    /\ schema = SchemaArchive
    /\ \E i \in DOMAIN chunk_dicts :
           /\ IsDict(chunk_dicts[i])
           /\ Has(chunk_dicts[i], s_extra)
           /\ ~Has(chunk_dicts[i], s_title)
    /\ KeysOf(merged) = {s_title, K_filetype, K_technical}
    /\ ~Has(merged, s_extra)

\* C2: for an empty list of partial records the returned record has the key
\* "technical" iff the schema declares it and technical metadata was
\* supplied, valued with that metadata, the key "filetype" iff the schema
\* declares it and a guess was supplied, valued with that guess, and no
\* other key.
C2_EmptyListRecord ==
    (Done /\ chunk_dicts = <<>>) =>
        /\ IsDict(merged)
        /\ NoKeyTwice(merged)
        /\ KeysOf(merged) \subseteq {K_technical, K_filetype}
        /\ Has(merged, K_technical) <=> (K_technical \in DeclaredNames /\ technical # None)
        /\ Has(merged, K_technical) => Item(merged, K_technical) = technical
        /\ Has(merged, K_filetype) <=> (K_filetype \in DeclaredNames /\ filetype_guess # None)
        /\ Has(merged, K_filetype) => Item(merged, K_filetype) = filetype_guess

\* the empty call with technical = {"sha256": "abc"} and guess "pdf" on a
\* schema that declares both (and a third property) gives exactly the two
C2_Witness ==
    /\ Done
    /\ chunk_dicts = <<>>
    /\ schema = SchemaArchive
    /\ merged = Dict(<<<<K_technical, Dict(<<<<s_sha256, Str(s_abc)>>>>)>>,
                       <<K_filetype, Str(s_pdf)>>>>)

\* a value other than null, "", [] and {}
NonEmptyValue(x) == x \notin {None, Str(<<>>), EmptyList, EmptyDict}

\* m is the held object a with the incoming object b merged in: a key that
\* holds a non-empty value in a keeps it, unless the held and the incoming
\* value are both objects, which are merged under the same rule; the incoming
\* value is taken for a key a lacks or holds empty; m has no other key
RECURSIVE FillsGapsOnly(_, _, _)
FillsGapsOnly(a, b, m) ==
    /\ IsDict(m)
    /\ NoKeyTwice(m)
    /\ KeysOf(m) = KeysOf(a) \cup KeysOf(b)
    /\ \A k \in KeysOf(m) :
           IF Has(a, k) /\ NonEmptyValue(Item(a, k))
           THEN IF IsDict(Item(a, k)) /\ Has(b, k) /\ IsDict(Item(b, k))
                THEN FillsGapsOnly(Item(a, k), Item(b, k), Item(m, k))
                ELSE Item(m, k) = Item(a, k)
           ELSE IF Has(b, k) THEN Item(m, k) = Item(b, k)
                ELSE Item(m, k) = Item(a, k)

\* the steps of merging the values of the object-typed field key: the held
\* object starts empty, every value that is an object is merged into it,
\* every other value leaves it as it is, and the last one is the field's value
ObjectFieldSteps(key) ==
    LET values == Candidates(key) IN
    /\ _merge_objects(<<>>) = EmptyDict
    /\ \A n \in DOMAIN values :
           IF IsDict(values[n])
           THEN FillsGapsOnly(_merge_objects(SubSeq(values, 1, n - 1)), values[n],
                              _merge_objects(SubSeq(values, 1, n)))
           ELSE _merge_objects(SubSeq(values, 1, n)) = _merge_objects(SubSeq(values, 1, n - 1))
    /\ Item(merged, key) = _merge_objects(values)

\* the item schema of the array field key
ItemsSchemaOf(key) == _schema_items_schema(DictOrEmpty(EntryOf(key)))

\* the object items of the array field key, in chunk order
ObjectItems(key) ==
    LET items == AllItems(Candidates(key)) IN
    SelectIdx(items, [i \in DOMAIN items |-> IsDict(items[i])])

\* one step of merging the object items of an array field: held and next map
\* signatures to objects before and after the item of signature sig
ItemStep(held, item, sig, next) ==
    /\ KeysOf(next) = KeysOf(held) \cup {sig}
    /\ \A other \in KeysOf(held) \ {sig} : Item(next, other) = Item(held, other)
    /\ IF Has(held, sig)
       THEN FillsGapsOnly(Item(held, sig), item, Item(next, sig))
       ELSE Item(next, sig) = item

\* the steps of merging the object items of the array field key under the
\* identity keys of its item schema
ArrayItemSteps(key, keys, items) ==
    /\ \A n \in DOMAIN items :
           ItemStep(MergeBySig(SubSeq(items, 1, n - 1), keys, EmptyDict),
                    items[n], _object_signature(items[n], keys),
                    MergeBySig(SubSeq(items, 1, n), keys, EmptyDict))
    /\ Item(merged, key) = ValuesInOrder(MergeBySig(items, keys, EmptyDict))

\* C3: at every step of merging a sequence of objects, for an object-typed
\* field and for the array items of one signature, a key path that holds a
\* non-empty value keeps it unless the held and the incoming value are both
\* objects, which are merged recursively under the same rule; an incoming
\* value only replaces an absent or empty one.
C3_DeepMergeFillsGaps ==
    (Returned /\ chunk_dicts # <<>>) =>
        \A key \in DeclaredNames :
            /\ KindOf(key) = Str(T_object) => ObjectFieldSteps(key)
            /\ (/\ KindOf(key) = Str(T_array)
                /\ _schema_type(ItemsSchemaOf(key)) = Str(T_object)) =>
                   ArrayItemSteps(key, _derive_identity_keys(ItemsSchemaOf(key))[2],
                                  ObjectItems(key))

\* three objects for one field: the second fills the gaps of the first (a
\* null, an empty string inside a nested object), the third changes nothing
C3_Witness ==
    /\ Returned
    /\ schema = SchemaMeta
    /\ Candidates(s_meta) =
           << Dict(<<<<s_a, None>>,
                     <<s_b, Dict(<<<<s_c, Str(<<>>)>>, <<s_d, Str(s_y)>>>>)>>>>),
              Dict(<<<<s_a, Str(<<"2">>)>>, <<s_b, Dict(<<<<s_c, Str(s_x)>>>>)>>>>),
              Dict(<<<<s_a, Str(<<"1">>)>>>>) >>
    /\ Item(merged, s_meta) =
           Dict(<<<<s_a, Str(<<"2">>)>>,
                  <<s_b, Dict(<<<<s_c, Str(s_x)>>, <<s_d, Str(s_y)>>>>)>>>>)

\* C4: the call never raises: for every input, a list entry that is not a
\* dict, a wrong-typed value, a field-schema or item-schema property entry
\* that is not a mapping and a schema without a properties mapping included,
\* it returns a record.
C4_NeverRaises == Done => IsDict(merged) /\ ~IsRaise(merged)

\* no partial record fills key: every record's value for it is absent, null
\* or empty
Unfilled(key) == \A i \in DOMAIN chunk_dicts : ~NonEmptyValue(Get(chunk_dicts[i], key))

\* the "technical" half of C5
TechnicalInjected ==
    (K_technical \in DeclaredNames /\ technical # None /\ Unfilled(K_technical)) =>
        Item(merged, K_technical) = technical

\* the "filetype" half of C5
FiletypeInjected ==
    (K_filetype \in DeclaredNames /\ filetype_guess # None /\ Unfilled(K_filetype)) =>
        Item(merged, K_filetype) = filetype_guess

\* C5: for a non-empty list of partial records, if the schema declares
\* "technical", technical metadata is supplied and no partial record fills
\* "technical", the merged "technical" is the supplied metadata; likewise
\* "filetype" is the supplied guess when declared, supplied and filled by no
\* record.
C5_SidecarsInjected ==
    (Returned /\ chunk_dicts # <<>>) => TechnicalInjected /\ FiletypeInjected

\* the value of the field key in the returned record when the merge of its
\* kind assigned v: v itself, unless the post-pass put the supplied sidecar
\* in the place of a "technical" that is not an object or of a falsy
\* "filetype"
AfterPostPass(key, v) ==
    IF key = K_technical /\ ~IsDict(v) /\ technical # None THEN technical
    ELSE IF key = K_filetype /\ ~Truthy(v) /\ filetype_guess # None THEN filetype_guess
    ELSE v

\* the first value of values whose flag is set, null when no flag is set
FirstFlagged(values, flags) ==
    IF \E i \in DOMAIN values : flags[i]
    THEN values[CHOOSE i \in DOMAIN values : flags[i] /\ \A j \in 1..(i - 1) : ~flags[j]]
    ELSE None

\* a string of whitespace only, the empty string included
IsBlankText(x) == IsStr(x) /\ \A i \in DOMAIN x[2] : x[2][i] \in Whitespace

\* the text x without its leading and trailing whitespace, null for null
Trimmed(x) == IF IsStr(x) THEN Str(strip(x[2])) ELSE x

\* the string-typed fields merged under the policy "first"
FirstPolicyFields ==
    {key \in DeclaredNames : KindOf(key) = Str(T_string) /\ key \notin ConcatKeys}

\* C6 (as stated): for a string-typed field under the policy "first" the
\* merged value is the first value in chunk order that is neither null nor a
\* whitespace-only string, and null only when every chunk's value is null,
\* absent or whitespace-only.
C6_FirstNonBlankValue ==
    (Returned /\ chunk_dicts # <<>>) =>
        \A key \in FirstPolicyFields :
            Item(merged, key) =
                AfterPostPass(key,
                    FirstFlagged(Candidates(key),
                        [i \in DOMAIN chunk_dicts |->
                            /\ ~IsNone(Candidates(key)[i])
                            /\ ~IsBlankText(Candidates(key)[i])]))

\* C6 (amended): for a string-typed field under the policy "first" the value
\* the merge assigns is the first value in chunk order that is a string and
\* not whitespace-only, without its leading and trailing whitespace; values
\* that are not strings are passed over, and the value is null exactly when
\* no chunk's value is such a string.
C6_FirstStringTrimmed ==
    (Returned /\ chunk_dicts # <<>>) =>
        \A key \in FirstPolicyFields :
            Item(merged, key) =
                AfterPostPass(key,
                    Trimmed(FirstFlagged(Candidates(key),
                        [i \in DOMAIN chunk_dicts |->
                            /\ IsStr(Candidates(key)[i])
                            /\ ~IsBlankText(Candidates(key)[i])])))

\* a number, then a padded text, then another text: the number is passed
\* over and the padded text is returned trimmed
C6_Witness ==
    /\ Returned
    /\ schema = SchemaTitle
    /\ Candidates(s_title) = <<IntV(5), Str(<<" ", "a", " ">>), Str(s_b)>>
    /\ Item(merged, s_title) = Str(s_a)

\* the string-typed fields merged under the policy "concat"
ConcatPolicyFields ==
    {key \in DeclaredNames : KindOf(key) = Str(T_string) /\ key \in ConcatKeys}

\* the texts of the values of key that are strings and not whitespace-only,
\* in chunk order, as the chunks gave them
NonBlankTexts(key) ==
    LET kept == SelectIdx(Candidates(key),
                    [i \in DOMAIN chunk_dicts |->
                        /\ IsStr(Candidates(key)[i])
                        /\ ~IsBlankText(Candidates(key)[i])])
    IN [i \in DOMAIN kept |-> kept[i][2]]

\* the same texts without their leading and trailing whitespace
TrimmedTexts(key) == [i \in DOMAIN NonBlankTexts(key) |-> strip(NonBlankTexts(key)[i])]

\* of the texts, the first for each distinct prefix of 120 characters
FirstOfEachPrefix(texts) ==
    SelectIdx(texts, [i \in DOMAIN texts |->
        \A j \in 1..(i - 1) : Prefix(texts[j], 120) # Prefix(texts[i], 120)])

\* the first 1600 characters of the survivors of texts joined by a blank
\* line, null when there is no text
JoinedAndCut(texts) ==
    IF texts = <<>> THEN None
    ELSE Str(Prefix(Join(<<"\n", "\n">>, FirstOfEachPrefix(texts)), 1600))

\* the number of places of the string s at which text occurs
Occurrences(text, s) ==
    Cardinality({i \in 1..(Len(s) - Len(text) + 1) : SubSeq(s, i, i + Len(text) - 1) = text})

\* the texts that several chunks contribute identically
ContributedTwice(texts) ==
    {texts[i] : i \in {i \in DOMAIN texts : \E j \in DOMAIN texts : j # i /\ texts[j] = texts[i]}}

\* C7 (as stated): for a concat-policy string field the merged value is the
\* first 1600 characters of the non-blank candidates in chunk order, reduced
\* to the first candidate of each distinct 120-character prefix and joined by
\* a blank line; a text that several chunks contribute identically appears
\* exactly once.
C7_ProseJoinedOnce ==
    (Returned /\ chunk_dicts # <<>>) =>
        \A key \in ConcatPolicyFields :
            /\ Item(merged, key) = AfterPostPass(key, JoinedAndCut(NonBlankTexts(key)))
            /\ \A text \in ContributedTwice(NonBlankTexts(key)) :
                   /\ IsStr(Item(merged, key))
                   /\ Occurrences(text, Item(merged, key)[2]) = 1

\* C7 (amended): for a concat-policy string field the value the merge
\* assigns is the first 1600 characters of the string obtained by taking the
\* values that are strings and not whitespace-only, each without its leading
\* and trailing whitespace, in chunk order, keeping only the first for each
\* distinct 120-character prefix and joining the survivors by a blank line
\* (null when there is none); a text contributed identically by several
\* chunks is joined at most once, and exactly once when no different earlier
\* candidate has its 120-character prefix; the cut is made in the joined
\* result, not per entry.
C7_ProseTrimmedJoinedCut ==
    (Returned /\ chunk_dicts # <<>>) =>
        \A key \in ConcatPolicyFields :
            /\ Item(merged, key) = AfterPostPass(key, JoinedAndCut(TrimmedTexts(key)))
            /\ \A text \in ContributedTwice(TrimmedTexts(key)) :
                   LET kept == FirstOfEachPrefix(TrimmedTexts(key))
                       times == Cardinality({i \in DOMAIN kept : kept[i] = text})
                   IN /\ times <= 1
                      /\ (\A i \in DOMAIN TrimmedTexts(key) :
                              Prefix(TrimmedTexts(key)[i], 120) = Prefix(text, 120)
                                  => TrimmedTexts(key)[i] = text) => times = 1

\* two chunks with the same text of 1000 characters and a third with 700
\* others: the text is joined once, and the cut at 1600 falls inside the
\* last entry
C7_Witness ==
    /\ Returned
    /\ schema = SchemaDescription
    /\ Candidates(K_description) = <<Str(LongA), Str(LongA), Str(LongB)>>
    /\ Item(merged, K_description) = Str(LongA \o <<"\n", "\n">> \o Rep("b", 598))

\* the boolean-typed fields
BooleanFields == {key \in DeclaredNames : KindOf(key) = Str(T_boolean)}

\* the words read as true and as false
YesWords == {<<"t", "r", "u", "e">>, <<"y", "e", "s">>, <<"j", "a">>, <<"1">>}
NoWords == {<<"f", "a", "l", "s", "e">>, <<"n", "o">>, <<"n", "e", "e">>, <<"0">>}

\* what the candidate x decides when the text w is what is looked up for it:
\* text is mapped, any other candidate is returned as it is
Decided(x, w) ==
    IF ~IsStr(x) THEN x
    ELSE IF w \in YesWords THEN Bool(TRUE)
    ELSE IF w \in NoWords THEN Bool(FALSE)
    ELSE None

\* C8 (as stated): for a boolean-typed field the merged value is decided by
\* the first candidate in chunk order that is not null and not empty ("", []
\* or {}) alone: text maps case-insensitively {true, yes, ja, 1} to true,
\* {false, no, nee, 0} to false and any other text to null; a boolean
\* candidate is returned as it is.
C8_FirstCandidateDecides ==
    (Returned /\ chunk_dicts # <<>>) =>
        \A key \in BooleanFields :
            LET first == FirstFlagged(Candidates(key),
                             [i \in DOMAIN chunk_dicts |-> NonEmptyValue(Candidates(key)[i])])
            IN Item(merged, key) =
                   AfterPostPass(key, Decided(first, IF IsStr(first) THEN lower(first[2]) ELSE <<>>))

\* C8 (amended): for a boolean-typed field the value the merge assigns is
\* decided by the first candidate in chunk order that is not null, not a
\* whitespace-only string and not an empty list or object, alone: text is
\* mapped, without its leading and trailing whitespace and
\* case-insensitively, {true, yes, ja, 1} to true, {false, no, nee, 0} to
\* false and any other text to null, without looking at later candidates; a
\* boolean candidate is returned as it is.
C8_FirstNonBlankCandidateDecides ==
    (Returned /\ chunk_dicts # <<>>) =>
        \A key \in BooleanFields :
            LET first == FirstFlagged(Candidates(key),
                             [i \in DOMAIN chunk_dicts |->
                                 /\ NonEmptyValue(Candidates(key)[i])
                                 /\ ~IsBlankText(Candidates(key)[i])])
            IN Item(merged, key) =
                   AfterPostPass(key,
                       Decided(first, IF IsStr(first) THEN lower(strip(first[2])) ELSE <<>>))

\* the candidates "ja", "0", null give true
C8_Witness ==
    /\ Returned
    /\ schema = SchemaFlag
    /\ Candidates(s_flag) = <<Str(s_ja), Str(<<"0">>), None>>
    /\ Item(merged, s_flag) = Bool(TRUE)

\* the array fields whose items are not objects
ScalarArrayFields ==
    {key \in DeclaredNames :
        /\ KindOf(key) = Str(T_array)
        /\ _schema_type(ItemsSchemaOf(key)) # Str(T_object)}

\* the canonical key of an item: the sorted-key serialization of a compound
\* item, the plain string form of any other
CanonicalKey(item) == IF IsDict(item) \/ IsList(item) THEN json_dumps(item) ELSE str(item)

\* the items that are not null, in order
WithoutNulls(items) == SelectIdx(items, [i \in DOMAIN items |-> ~IsNone(items[i])])

\* the items whose canonical key no earlier item has, in order
FirstSeen(items) ==
    SelectIdx(items, [i \in DOMAIN items |->
        \A j \in 1..(i - 1) : CanonicalKey(items[j]) # CanonicalKey(items[i])])

\* the coerced arrays of the chunks' values for key, one after the other
CoercedItems(key) ==
    Flatten([i \in DOMAIN chunk_dicts |-> _coerce_to_list(Candidates(key)[i])])

\* C9: for an array field whose items are not objects the merged value is
\* the concatenation of the chunks' coerced arrays in chunk order without the
\* nulls and without every item whose canonical key was seen before: the
\* first-seen order is kept and no two items of the result share a canonical
\* key, whether the duplicates come from different chunks or from one.
C9_ScalarsFirstSeenOnce ==
    (Returned /\ chunk_dicts # <<>>) =>
        \A key \in ScalarArrayFields :
            /\ Item(merged, key) =
                   AfterPostPass(key, List(FirstSeen(WithoutNulls(CoercedItems(key)))))
            /\ key \notin {K_technical, K_filetype} =>
                   LET out == Item(merged, key)[2] IN
                   \A i, j \in DOMAIN out :
                       CanonicalKey(out[i]) = CanonicalKey(out[j]) => i = j

\* ["x", "y"] and ["y", "z"] give ["x", "y", "z"]; a third chunk that
\* repeats an item within itself next to a null adds nothing
C9_Witness ==
    /\ Returned
    /\ schema = SchemaSubjects
    /\ Candidates(s_subjects) = << List(<<Str(s_x), Str(s_y)>>),
                                   List(<<Str(s_y), Str(s_z)>>),
                                   List(<<Str(s_x), None, Str(s_x)>>) >>
    /\ Item(merged, s_subjects) = List(<<Str(s_x), Str(s_y), Str(s_z)>>)

\* the array-of-objects fields whose item schema yields identity keys
KeyedObjectArrayFields ==
    {key \in DeclaredNames :
        /\ KindOf(key) = Str(T_array)
        /\ _schema_type(ItemsSchemaOf(key)) = Str(T_object)
        /\ IsList(_derive_identity_keys(ItemsSchemaOf(key)))
        /\ _derive_identity_keys(ItemsSchemaOf(key))[2] # <<>>}

\* the names of the identity keys of the array field key, as a set
IdentityKeys(key) ==
    {_derive_identity_keys(ItemsSchemaOf(key))[2][i][2] :
        i \in DOMAIN _derive_identity_keys(ItemsSchemaOf(key))[2]}

\* chunk i contains one object for the array field key
OneObject(key, i) ==
    /\ IsDict(chunk_dicts[i])
    /\ Len(SelectIdx(_coerce_to_list(Candidates(key)[i]),
               [n \in DOMAIN _coerce_to_list(Candidates(key)[i]) |->
                   IsDict(_coerce_to_list(Candidates(key)[i])[n])])) = 1

\* that object
TheObject(key, i) ==
    SelectIdx(_coerce_to_list(Candidates(key)[i]),
        [n \in DOMAIN _coerce_to_list(Candidates(key)[i]) |->
            IsDict(_coerce_to_list(Candidates(key)[i])[n])])[1]

\* the objects a and b have the same non-empty value for the identity key k
\* and no other field in common
ShareOnly(a, b, k) ==
    /\ Has(a, k) /\ Has(b, k)
    /\ NonEmptyValue(Item(a, k))
    /\ Item(a, k) = Item(b, k)
    /\ KeysOf(a) \cap KeysOf(b) = {k}

\* the object a has a non-empty value for an identity key other than k
FillsOtherKey(key, a, k) ==
    \E other \in IdentityKeys(key) \ {k} : Has(a, other) /\ NonEmptyValue(Item(a, other))

\* the merged array of key is one entry with the fields of a and of b
OneEntryOfBoth(key, a, b) ==
    /\ IsList(Item(merged, key))
    /\ Len(Item(merged, key)[2]) = 1
    /\ KeysOf(Item(merged, key)[2][1]) = KeysOf(a) \cup KeysOf(b)
    /\ \A f \in KeysOf(a) : Item(Item(merged, key)[2][1], f) = Item(a, f)
    /\ \A f \in KeysOf(b) : Item(Item(merged, key)[2][1], f) = Item(b, f)

\* C10 (as stated): for an array-of-objects field whose item schema yields
\* identity keys, two chunks that each contain one object, the two objects
\* having the same non-empty value for an identity key and otherwise
\* different fields, give exactly one entry in the merged array, and that
\* entry has the fields of both.
C10_SharedKeyOneEntry ==
    (Returned /\ Len(chunk_dicts) = 2) =>
        \A key \in KeyedObjectArrayFields :
            (OneObject(key, 1) /\ OneObject(key, 2)) =>
                \A k \in IdentityKeys(key) :
                    ShareOnly(TheObject(key, 1), TheObject(key, 2), k) =>
                        OneEntryOfBoth(key, TheObject(key, 1), TheObject(key, 2))

\* C10 (amended): for an array-of-objects field whose item schema yields
\* identity keys, two chunks that each contain one object, the two objects
\* having the same non-empty value for an identity key, neither having a
\* non-empty value for another identity key, and otherwise different
\* fields, give exactly one entry in the merged array, and that entry has
\* the fields of both.
C10_SameIdentityOneEntry ==
    (Returned /\ Len(chunk_dicts) = 2) =>
        \A key \in KeyedObjectArrayFields :
            (OneObject(key, 1) /\ OneObject(key, 2)) =>
                \A k \in IdentityKeys(key) :
                    (/\ ShareOnly(TheObject(key, 1), TheObject(key, 2), k)
                     /\ ~FillsOtherKey(key, TheObject(key, 1), k)
                     /\ ~FillsOtherKey(key, TheObject(key, 2), k)) =>
                        OneEntryOfBoth(key, TheObject(key, 1), TheObject(key, 2))

\* one person with the identifier P1 and a name, one with P1 and a role:
\* the merged array is the one person with identifier, name and role
C10_Witness ==
    /\ Returned
    /\ schema = SchemaPersons
    /\ Len(chunk_dicts) = 2
    /\ OneObject(s_persons, 1) /\ OneObject(s_persons, 2)
    /\ TheObject(s_persons, 1) = Dict(<<<<s_person_id, Str(s_P1)>>, <<s_name, Str(s_Jan)>>>>)
    /\ TheObject(s_persons, 2) = Dict(<<<<s_person_id, Str(s_P1)>>, <<s_role, Str(s_lid)>>>>)
    /\ ShareOnly(TheObject(s_persons, 1), TheObject(s_persons, 2), s_person_id)
    /\ Item(merged, s_persons) =
           List(<<Dict(<<<<s_person_id, Str(s_P1)>>, <<s_name, Str(s_Jan)>>,
                         <<s_role, Str(s_lid)>>>>)>>)

\* the array-of-objects fields whose identity keys are derived without an
\* exception
ObjectArrayFields ==
    {key \in DeclaredNames :
        /\ KindOf(key) = Str(T_array)
        /\ _schema_type(ItemsSchemaOf(key)) = Str(T_object)
        /\ IsList(_derive_identity_keys(ItemsSchemaOf(key)))}

\* the identity keys chosen for the array field key, as _object_signature
\* takes them
ChosenKeys(key) == _derive_identity_keys(ItemsSchemaOf(key))[2]

\* the object a has a non-empty value for the key k
Fills(a, k) == Has(a, k) /\ NonEmptyValue(Item(a, k))

\* a and b agree on the key k: both have a non-empty value for it and the
\* two are equal after normalization, or neither has
AgreeOn(a, b, k) ==
    IF Fills(a, k) \/ Fills(b, k)
    THEN Fills(a, k) /\ Fills(b, k) /\ _norm_scalar(Item(a, k)) = _norm_scalar(Item(b, k))
    ELSE TRUE

\* a and b are structurally equal: objects with the same keys and
\* structurally equal values, lists of structurally equal items in the same
\* order, or equal scalars
RECURSIVE StructurallyEqual(_, _)
StructurallyEqual(a, b) ==
    IF IsDict(a) /\ IsDict(b)
    THEN /\ KeysOf(a) = KeysOf(b)
         /\ \A k \in KeysOf(a) : StructurallyEqual(Item(a, k), Item(b, k))
    ELSE IF IsList(a) /\ IsList(b)
    THEN /\ Len(a[2]) = Len(b[2])
         /\ \A i \in DOMAIN a[2] : StructurallyEqual(a[2][i], b[2][i])
    ELSE a = b

\* the signature s is key-based
KeyBased(s) == Len(s) >= 4 /\ SubSeq(s, 1, 4) = <<"s", "i", "g", ":">>

\* what C11 says of two objects a and b under the identity keys keys
SignatureGuarantee(a, b, keys) ==
    /\ _object_signature(a, keys) = _object_signature(b, keys) =>
           IF \E i \in DOMAIN keys : Fills(a, keys[i][2]) \/ Fills(b, keys[i][2])
           THEN \A i \in DOMAIN keys : AgreeOn(a, b, keys[i][2])
           ELSE StructurallyEqual(a, b)
    /\ KeyBased(_object_signature(a, keys)) <=> \E i \in DOMAIN keys : Fills(a, keys[i][2])
    /\ (KeyBased(_object_signature(a, keys)) /\ ~KeyBased(_object_signature(b, keys))) =>
           _object_signature(a, keys) # _object_signature(b, keys)

\* C11: two objects receive the same identity signature only if they agree,
\* after normalization, on the value of every chosen identity key; two
\* objects in which no chosen key has a non-empty value receive the same
\* signature only if they are structurally equal; a key-based signature
\* never equals a fallback signature.
C11_SameSignatureSameIdentity ==
    (Returned /\ chunk_dicts # <<>>) =>
        \A key \in ObjectArrayFields :
            \A i, j \in DOMAIN ObjectItems(key) :
                SignatureGuarantee(ObjectItems(key)[i], ObjectItems(key)[j], ChosenKeys(key))

\* the number the value v is read as, null when it is none: a number is
\* itself, a boolean 1 or 0, a string what float() parses from it
NumberAlone(v) ==
    IF IsInt(v) \/ IsFloat(v) THEN Flt(v[2])
    ELSE IF IsBool(v) THEN Flt(IF v[2] THEN 1 ELSE 0)
    ELSE IF IsStr(v) /\ ~IsRaise(float_of_str(strip(v[2]))) THEN float_of_str(strip(v[2]))
    ELSE None

\* the value v of one chunk passed through the rule of the scalar or object
\* kind t alone
ScalarAlone(t, v) ==
    IF t = Str(T_string)
    THEN IF IsStr(v) /\ ~IsBlankText(v) THEN Trimmed(v) ELSE None
    ELSE IF t = Str(T_number) THEN NumberAlone(v)
    ELSE IF t = Str(T_integer)
    THEN IF IsNone(NumberAlone(v)) THEN None ELSE IntV(NumberAlone(v)[2])
    ELSE IF t = Str(T_object) THEN IF IsDict(v) THEN v ELSE EmptyDict
    ELSE IF IsNone(v) \/ IsBlankText(v) \/ v = EmptyList \/ v = EmptyDict THEN None
    ELSE IF t = Str(T_boolean) THEN Decided(v, IF IsStr(v) THEN lower(strip(v[2])) ELSE <<>>)
    ELSE v

\* the only partial record of a call made with one
OnlyRecord == chunk_dicts[1]

\* C12 (as stated): for a list of exactly one partial record R every field
\* of the merged record is R's value for it passed through the rule of its
\* kind alone: the trimmed string, the parsed number, the mapped boolean,
\* the coerced list, the object itself.
C12_SingleRecordCoercedAlone ==
    (Returned /\ Len(chunk_dicts) = 1) =>
        \A key \in DeclaredNames :
            Item(merged, key) =
                AfterPostPass(key,
                    IF KindOf(key) = Str(T_array)
                    THEN List(_coerce_to_list(Get(OnlyRecord, key)))
                    ELSE ScalarAlone(KindOf(key), Get(OnlyRecord, key)))

\* the objects among the items, in order
ObjectsAmong(items) == SelectIdx(items, [i \in DOMAIN items |-> IsDict(items[i])])

\* no two of the objects objs have the same signature under keys
DistinctSignatures(objs, keys) ==
    \A i, j \in DOMAIN objs :
        _object_signature(objs[i], keys) = _object_signature(objs[j], keys) => i = j

\* the array value v of one chunk for the field key, as the merge of one
\* chunk leaves it: m is the coerced list without nulls and without the
\* items whose canonical key an earlier item has; for an array of objects, m
\* is the objects of the coerced list when their signatures differ pairwise,
\* and a shorter list when they do not
ArrayAlone(key, v, m) ==
    IF _schema_type(ItemsSchemaOf(key)) # Str(T_object)
    THEN m = List(FirstSeen(WithoutNulls(_coerce_to_list(v))))
    ELSE /\ IsList(m)
         /\ IF DistinctSignatures(ObjectsAmong(_coerce_to_list(v)), ChosenKeys(key))
            THEN m = List(ObjectsAmong(_coerce_to_list(v)))
            ELSE Len(m[2]) < Len(ObjectsAmong(_coerce_to_list(v)))

\* the text v of the string field key, cut to 1600 characters when the field
\* is merged under the policy "concat"
CutProse(key, v) ==
    IF key \in ConcatPolicyFields /\ IsStr(v) THEN Str(Prefix(v[2], 1600)) ELSE v

\* C12 (amended): for a list of exactly one partial record R every field of
\* the merged record is R's value for it passed through the rule of its kind
\* alone (the trimmed string, cut to 1600 characters for a prose field, the
\* parsed number, the mapped boolean, the object itself), followed by the
\* post-pass, except for an array field, whose coerced list is still
\* reduced within the one chunk: nulls and items with a canonical key seen
\* before are dropped, and for an array of objects the items that are not
\* objects are dropped and objects of one signature are merged into one.
C12_SingleRecordCoercedAndReduced ==
    (Returned /\ Len(chunk_dicts) = 1) =>
        \A key \in DeclaredNames :
            IF KindOf(key) = Str(T_array)
            THEN \/ key \in {K_technical, K_filetype}
                 \/ ArrayAlone(key, Get(OnlyRecord, key), Item(merged, key))
            ELSE Item(merged, key) =
                     AfterPostPass(key,
                         CutProse(key, ScalarAlone(KindOf(key), Get(OnlyRecord, key))))

\* one record whose array holds the same text twice around a null: the
\* merged array holds the text once
C12_Witness ==
    /\ Returned
    /\ schema = SchemaSubjects
    /\ chunk_dicts = <<Dict(<<<<s_subjects, List(<<Str(s_x), None, Str(s_x)>>)>>>>)>>
    /\ Item(merged, s_subjects) = List(<<Str(s_x)>>)

\* the value v is of the declared kind t or is the default of t: null for
\* string, integer, number and boolean, a list for array, an object for
\* object; a kind outside these six admits every value
OfKindOrDefault(t, v) ==
    IF t = Str(T_string) THEN IsStr(v) \/ IsNone(v)
    ELSE IF t = Str(T_integer) THEN IsInt(v) \/ IsNone(v)
    ELSE IF t = Str(T_number) THEN IsInt(v) \/ IsFloat(v) \/ IsNone(v)
    ELSE IF t = Str(T_boolean) THEN IsBool(v) \/ IsNone(v)
    ELSE IF t = Str(T_array) THEN IsList(v)
    ELSE IF t = Str(T_object) THEN IsDict(v)
    ELSE TRUE

\* C13: for a non-empty list of partial records, the merged value of every
\* field declared with a kind is a value of that kind or the default of the
\* kind, whatever the types of the chunk values are.
C13_WrongTypedNeverReachOutput ==
    (Returned /\ chunk_dicts # <<>>) =>
        \A key \in DeclaredNames : OfKindOrDefault(KindOf(key), Item(merged, key))

\* the declared fields whose field-schema entry is not a mapping or is a
\* mapping without a type
MalformedFields ==
    {key \in DeclaredNames : ~IsDict(EntryOf(key)) \/ ~Has(EntryOf(key), K_type)}

\* the declared fields whose kind is none of the six the merge knows
UnknownKindFields ==
    {key \in DeclaredNames :
        KindOf(key) \notin {Str(T_string), Str(T_array), Str(T_object),
                            Str(T_integer), Str(T_number), Str(T_boolean)}}

\* the first value of key, in chunk order, that is neither null nor empty,
\* as the chunk gave it
FirstNonEmptyUnmodified(key) ==
    FirstFlagged(Candidates(key),
        [i \in DOMAIN chunk_dicts |->
            /\ NonEmptyValue(Candidates(key)[i])
            /\ ~IsBlankText(Candidates(key)[i])])

\* C14 (as stated): a field whose field-schema entry is not a mapping, or is
\* a mapping without a type, is merged with the untyped rule: the merged
\* value is the first chunk value that is neither null nor empty, unmodified
\* (a number or a list stays as it is).
C14_MalformedEntryUntypedRule ==
    (Returned /\ chunk_dicts # <<>>) =>
        \A key \in MalformedFields :
            Item(merged, key) = AfterPostPass(key, FirstNonEmptyUnmodified(key))

\* C14 (amended): a field whose field-schema entry is not a mapping, or is a
\* mapping without a type, is merged as a string field (the first chunk value
\* that is a string with content, trimmed; values of other types are passed
\* over); the untyped rule, the first chunk value that is neither null nor
\* empty, unmodified, is the one of a field whose entry declares a type that
\* is none of string, array, object, integer, number, boolean.
C14_MalformedEntryStringRule ==
    (Returned /\ chunk_dicts # <<>>) =>
        /\ \A key \in MalformedFields \ ConcatKeys :
               /\ KindOf(key) = Str(T_string)
               /\ Item(merged, key) =
                      AfterPostPass(key,
                          Trimmed(FirstFlagged(Candidates(key),
                              [i \in DOMAIN chunk_dicts |->
                                  /\ IsStr(Candidates(key)[i])
                                  /\ ~IsBlankText(Candidates(key)[i])])))
        /\ \A key \in UnknownKindFields :
               Item(merged, key) = AfterPostPass(key, FirstNonEmptyUnmodified(key))

\* a field whose entry has no type is given a number and a field of an
\* unknown kind the same number: the first is null, the second the number
C14_Witness ==
    /\ Returned
    /\ chunk_dicts # <<>>
    /\ \E key \in MalformedFields \ ConcatKeys :
           /\ IsDict(EntryOf(key))
           /\ Candidates(key)[1] = IntV(5)
           /\ Item(merged, key) = None
    /\ \E key \in UnknownKindFields :
           /\ Candidates(key)[1] = IntV(5)
           /\ Item(merged, key) = IntV(5)

\* the value the loop over the declared fields computes for key, before the
\* post-pass
Computed(key) == MergeField(key, EntryOf(key), chunk_dicts)

\* the post-pass replaces the computed value c of key by the supplied
\* technical metadata
ReplacesTechnical(key, c) == key = K_technical /\ technical # None /\ ~IsDict(c)

\* the post-pass replaces the computed value c of key by the supplied guess
ReplacesFiletype(key, c) == key = K_filetype /\ filetype_guess # None /\ ~Truthy(c)

\* the value v of key in the returned record against the computed value c:
\* the supplied metadata or guess when the post-pass replaces c, c otherwise
PostPassed(key, c, v) ==
    v = (IF ReplacesTechnical(key, c) THEN technical
         ELSE IF ReplacesFiletype(key, c) THEN filetype_guess
         ELSE c)

\* C17: for a non-empty list the post-pass replaces the computed "technical"
\* by the supplied metadata exactly when the schema declares the field,
\* metadata is supplied and the computed value is not an object, and the
\* computed "filetype" by the supplied guess exactly when the schema declares
\* the field, a guess is supplied and the computed value is falsy; every
\* other computed value is kept.
C17_PostPassExactlyWhen ==
    (Returned /\ chunk_dicts # <<>>) =>
        \A key \in DeclaredNames : PostPassed(key, Computed(key), Item(merged, key))

\* both replacements happen in one call, and the values differ from the
\* computed ones
C17_Witness ==
    /\ Returned
    /\ chunk_dicts # <<>>
    /\ {K_technical, K_filetype} \subseteq DeclaredNames
    /\ ReplacesTechnical(K_technical, Computed(K_technical))
    /\ ReplacesFiletype(K_filetype, Computed(K_filetype))
    /\ Item(merged, K_technical) = technical
    /\ Item(merged, K_filetype) = filetype_guess
    /\ Item(merged, K_technical) # Computed(K_technical)
    /\ Item(merged, K_filetype) # Computed(K_filetype)

\* the object-typed fields
ObjectFields == {key \in DeclaredNames : KindOf(key) = Str(T_object)}

\* the chunk values of key that are objects, in chunk order
ObjectValues(key) ==
    SelectIdx(Candidates(key), [i \in DOMAIN chunk_dicts |-> IsDict(Candidates(key)[i])])

\* the first n of objs folded from the left under the binary deep merge,
\* from the empty object
RECURSIVE FoldLeft(_, _)
FoldLeft(objs, n) ==
    IF n = 0 THEN EmptyDict ELSE _deep_merge_objects(FoldLeft(objs, n - 1), objs[n])

\* C18: for an object-typed field the merged value is the left-to-right fold
\* of the binary deep merge over the chunk values that are objects, from the
\* empty object; values that are not objects have no effect, so the value is
\* always an object, and the empty one when no chunk supplies an object.
C18_ObjectFieldIsFold ==
    (Returned /\ chunk_dicts # <<>>) =>
        \A key \in ObjectFields :
            /\ IsDict(Item(merged, key))
            /\ Item(merged, key) = FoldLeft(ObjectValues(key), Len(ObjectValues(key)))
            /\ (ObjectValues(key) = <<>> => Item(merged, key) = EmptyDict)

\* an object, then a value that is no object, then a second object: the
\* merged value has what the two objects hold
C18_Witness ==
    /\ Returned
    /\ \E key \in ObjectFields :
           /\ Len(chunk_dicts) = 3
           /\ IsDict(Candidates(key)[1]) /\ Candidates(key)[1] # EmptyDict
           /\ ~IsDict(Candidates(key)[2]) /\ ~IsNone(Candidates(key)[2])
           /\ IsDict(Candidates(key)[3])
           /\ Item(merged, key) \notin {Candidates(key)[1], Candidates(key)[3]}

\* the array-typed fields
ArrayFields == {key \in DeclaredNames : KindOf(key) = Str(T_array)}

\* the text s looks like JSON and parses to a list or an object
ParsesAsJson(s) ==
    /\ s # <<>>
    /\ s[1] \in {"[", "{"}
    /\ IsList(json_loads(s)) \/ IsDict(json_loads(s))

\* the list l is the loose coercion of the chunk value v: empty for null, v
\* itself for a list, the parsed list or a singleton of the parsed object for
\* a text that looks like JSON and parses, and a singleton of the value for
\* every other value (of the trimmed text for a text; a whitespace-only text
\* may give the empty list)
LooselyCoerced(v, l) ==
    IF IsNone(v) THEN l = <<>>
    ELSE IF IsList(v) THEN l = v[2]
    ELSE IF IsStr(v) /\ ParsesAsJson(strip(v[2]))
    THEN l = (IF IsList(json_loads(strip(v[2])))
              THEN json_loads(strip(v[2]))[2] ELSE <<json_loads(strip(v[2]))>>)
    ELSE IF IsBlankText(v) THEN l \in {<<>>, <<v>>}
    ELSE l = <<Trimmed(v)>>

\* C19: the value of a chunk for an array field is coerced loosely: null to
\* the empty list, a list to itself, a text that looks like JSON and parses
\* to the parsed list or a singleton of the parsed object, every other value
\* to a singleton holding it; no scalar that is not null is dropped, so a
\* single record with such a scalar gives an array that is not empty.
C19_LooseCoercionKeepsScalars ==
    (Returned /\ chunk_dicts # <<>>) =>
        \A key \in ArrayFields :
            /\ \A i \in DOMAIN chunk_dicts :
                   LooselyCoerced(Candidates(key)[i], _coerce_to_list(Candidates(key)[i]))
            /\ (/\ Len(chunk_dicts) = 1
                /\ IsInt(Candidates(key)[1]) \/ IsFloat(Candidates(key)[1]) \/ IsBool(Candidates(key)[1])
                /\ _schema_type(ItemsSchemaOf(key)) # Str(T_object))
               => Item(merged, key) = List(<<Candidates(key)[1]>>)

\* the signatures of the objects objs under the identity keys keys
SignaturesOf(objs, keys) == [i \in DOMAIN objs |-> _object_signature(objs[i], keys)]

\* the places of sigs no earlier place has the signature of, in order
FirstOfEachSignature(sigs) ==
    SelectIdx([i \in DOMAIN sigs |-> i],
              [i \in DOMAIN sigs |-> \A j \in 1..(i - 1) : sigs[j] # sigs[i]])

\* of the objects objs, those with the signature sig, in order
WithSignature(objs, sigs, sig) == SelectIdx(objs, [i \in DOMAIN objs |-> sigs[i] = sig])

\* the first n of group deep-merged from the left, starting from the first
RECURSIVE MergedFromFirst(_, _)
MergedFromFirst(group, n) ==
    IF n = 1 THEN group[1]
    ELSE _deep_merge_objects(MergedFromFirst(group, n - 1), group[n])

\* the list entries is the objects objs of signatures sigs grouped: one
\* entry for each signature, in the order of the first occurrences firsts,
\* each the merge of the objects of its signature
GroupedBySignature(objs, sigs, firsts, entries) ==
    /\ Len(entries) = Len(firsts)
    /\ \A n \in DOMAIN firsts :
           entries[n] = MergedFromFirst(WithSignature(objs, sigs, sigs[firsts[n]]),
                                        Len(WithSignature(objs, sigs, sigs[firsts[n]])))

\* the objects objs of signatures sigs against the merged array m
MergedArrayIs(objs, sigs, m) ==
    IsList(m) /\ GroupedBySignature(objs, sigs, FirstOfEachSignature(sigs), m[2])

\* C20: for an array-of-objects field the merged array has exactly one entry
\* for each distinct signature among the object items of all chunks, in the
\* order of the first occurrence of the signatures (chunk order, then item
\* order); an entry is the left-to-right deep merge of all items of its
\* signature, starting from the first; items that are not objects are
\* skipped.  (A field named technical or filetype is left to the post-pass
\* of C17.)
C20_OneEntryPerSignature ==
    (Returned /\ chunk_dicts # <<>>) =>
        \A key \in ObjectArrayFields \ {K_technical, K_filetype} :
            MergedArrayIs(ObjectItems(key),
                          SignaturesOf(ObjectItems(key), ChosenKeys(key)),
                          Item(merged, key))

\* three chunks give objects of two signatures, the first signature again
\* in the last chunk: two entries, the first merged from two objects
C20_Witness ==
    /\ Returned
    /\ \E key \in ObjectArrayFields :
           LET objs == ObjectItems(key)
               sigs == SignaturesOf(objs, ChosenKeys(key))
           IN /\ Len(objs) = 3
              /\ FirstOfEachSignature(sigs) = <<1, 2>>
              /\ Len(Item(merged, key)[2]) = 2
              /\ Item(merged, key)[2][1] # objs[1]
              /\ Item(merged, key)[2][2] = objs[2]

\* what process_job saved for the files of the job, in order
SavedRecords == [i \in DOMAIN records |-> records[i][2]]

\* C16: every record persisted for a file of a job is the output of
\* aggregate_chunk_dicts for the schema of the job, so its keys are exactly
\* the property names of that schema, on every path of process_job: the
\* file without text and the file whose chunk calls all failed included.
C16_PersistedKeysAreSchemaNames ==
    \A i \in DOMAIN SavedRecords :
        /\ IsDict(SavedRecords[i])
        /\ KeysOf(SavedRecords[i]) = DeclaredNames

\* what the i-th call returned, as a value: the object, or the list of the
\* objects
Returns(i) ==
    IF results[i][1] = "object" THEN Deref(heap, results[i][2])
    ELSE List([n \in DOMAIN results[i][2][2] |-> Deref(heap, results[i][2][2][n])])

\* what a call of the kind of the i-th gives as a function of the values
\* given alone
FunctionOfArguments(i) ==
    IF results[i][1] = "object" THEN _merge_objects(chunk_dicts)
    ELSE MergeWithKeys(chunk_dicts, List(HeapKeys))

\* C15: the merge is pure: after any number of calls every value given,
\* the objects nested in it included, is what it was before the first call;
\* what a call returns depends on the values given only, so two calls with
\* the same values return equal results and no call changes what another
\* one sees.
C15_InputsUnchangedResultsEqual ==
    pc = "heap" =>
        /\ \A i \in DOMAIN refs : Deref(heap, refs[i]) = chunk_dicts[i]
        /\ \A i \in DOMAIN results : Returns(i) = FunctionOfArguments(i)
        /\ \A i, j \in DOMAIN results :
               results[i][1] = results[j][1] => Returns(i) = Returns(j)

\* two calls have been made with three objects of one identity whose nested
\* objects fill one another: the result holds what no single value holds,
\* and its first entry is not the first object given
C15_Witness ==
    /\ pc = "heap"
    /\ Len(results) = 2
    /\ Len(refs) = 3
    /\ \A i \in DOMAIN refs : IsRef(refs[i])
    /\ results[1][1] = "array" /\ results[2][1] = "array"
    /\ Len(Returns(2)[2]) = 1
    /\ \A i \in DOMAIN chunk_dicts : Returns(2)[2][1] # chunk_dicts[i]
    /\ results[2][2][2][1] # refs[1]

(***************************************************************************)
(* The properties of a call of _derive_identity_keys, stated on the state   *)
(* after the call (pc = "returned"): args[1] is the item schema, ret[1] the *)
(* list of keys.                                                            *)
(***************************************************************************)
\* the declared names of the item schema, in declared order
DeclaredKeyNames == KeyList(_schema_properties(args[1]))

\* the names of the item schema's required list, in required order
RequiredNames == _schema_required_keys(args[1])[2]

\* name is a declared property whose type is one of the four scalar kinds
ScalarProperty(name) ==
    /\ IsStr(name)
    /\ Has(_schema_properties(args[1]), name[2])
    /\ _schema_type(Item(_schema_properties(args[1]), name[2])) \in
           {Str(T_string), Str(T_integer), Str(T_number), Str(T_boolean)}

\* the positions of the three candidate lists
HintedScalar ==
    {i \in DOMAIN DeclaredKeyNames :
        IdHintSearch(DeclaredKeyNames[i][2]) /\ ScalarProperty(DeclaredKeyNames[i])}
RequiredScalar == {i \in DOMAIN RequiredNames : ScalarProperty(RequiredNames[i])}
DeclaredScalar == {i \in DOMAIN DeclaredKeyNames : ScalarProperty(DeclaredKeyNames[i])}

\* keys is the list of the first n elements of names at the positions of at
FirstAt(keys, names, at, n) ==
    /\ Len(keys) = (IF Cardinality(at) < n THEN Cardinality(at) ELSE n)
    /\ \A j \in DOMAIN keys :
           \E i \in at : names[i] = keys[j] /\ Cardinality({h \in at : h < i}) = j - 1

\* C21: the keys returned are the first non-empty of: up to 2 scalar-typed
\* properties with a name of the identifier vocabulary, in declared order; up
\* to 4 required names that are declared scalar-typed properties, in required
\* order; up to 4 scalar-typed properties in declared order; the list is empty
\* when no properties are declared, has at most 4 keys, and every key is a
\* declared scalar-typed property
C21_KeysByPriority ==
    pc = "returned" =>
        /\ IsList(ret[1])
        /\ Len(ret[1][2]) <= 4
        /\ \A j \in DOMAIN ret[1][2] : ScalarProperty(ret[1][2][j])
        /\ DeclaredKeyNames = <<>> => ret[1] = EmptyList
        /\ IF HintedScalar # {} THEN FirstAt(ret[1][2], DeclaredKeyNames, HintedScalar, 2)
           ELSE IF RequiredScalar # {} THEN FirstAt(ret[1][2], RequiredNames, RequiredScalar, 4)
           ELSE FirstAt(ret[1][2], DeclaredKeyNames, DeclaredScalar, 4)

\* three scalar properties carry an identifier name and two keys are returned
C21_Witness ==
    /\ pc = "returned"
    /\ Cardinality(HintedScalar) > 2
    /\ Len(ret[1][2]) = 2

\* the second step cut five required scalar names to four
C21_WitnessRequired ==
    /\ pc = "returned"
    /\ HintedScalar = {}
    /\ Cardinality(RequiredScalar) > 4
    /\ Len(ret[1][2]) = 4

\* the third step cut five scalar properties to four
C21_WitnessDeclared ==
    /\ pc = "returned"
    /\ HintedScalar = {}
    /\ RequiredScalar = {}
    /\ Cardinality(DeclaredScalar) > 4
    /\ Len(ret[1][2]) = 4

(***************************************************************************)
(* The integer and number fields (NumberSpec).                              *)
(***************************************************************************)
\* v is a number (bool is a subclass of int) or a str float() parses
CountsAsNumber(v) ==
    \/ IsInt(v) \/ IsFloat(v) \/ IsBool(v) \/ IsNonFinite(v) \/ IsHugeInt(v)
    \/ IsStr(v) /\ ~IsRaise(float_of_str(strip(v[2])))

\* the number v stands for
NumberValue(v) ==
    IF IsInt(v) THEN Flt(v[2])
    ELSE IF IsBool(v) THEN Flt(IF v[2] THEN 1 ELSE 0)
    ELSE IF IsStr(v) THEN float_of_str(strip(v[2]))
    ELSE v

\* the value at the first place of values that counts as a number
FirstNumber(values) ==
    values[CHOOSE i \in DOMAIN values :
              CountsAsNumber(values[i]) /\ \A j \in 1..(i - 1) : ~CountsAsNumber(values[j])]

\* x cast to an integer, null when there is no such integer
CastOrNull(x) == IF IsFloat(x) THEN IntV(x[2]) ELSE None

\* the value the rule of the integer and number fields gives for the field key
\* of kind t
FirstNumberRule(key, t) ==
    LET values == ValuesOf(chunk_dicts, key) IN
    IF \A i \in DOMAIN values : ~CountsAsNumber(values[i]) THEN None
    ELSE IF t = Str(T_integer) THEN CastOrNull(NumberValue(FirstNumber(values)))
    ELSE NumberValue(FirstNumber(values))

NumberFields ==
    {i \in DOMAIN _schema_properties(schema)[2] :
        _schema_type(_schema_properties(schema)[2][i][2]) \in {Str(T_integer), Str(T_number)}}

\* C22: an integer or number field holds the first chunk value, in chunk
\* order, that is a number or a text that parses as one, null when there is
\* none; for an integer field the value is cast to an integer, null when the
\* cast fails
C22_FirstNumberWins ==
    pc = "done" /\ chunk_dicts # <<>> =>
        /\ IsDict(merged)
        /\ \A i \in NumberFields :
               Get(merged, _schema_properties(schema)[2][i][1]) =
                   FirstNumberRule(_schema_properties(schema)[2][i][1],
                                   _schema_type(_schema_properties(schema)[2][i][2]))

\* the same rule for the calls in which every int is within the range of float
C22_FirstNumberWinsInRange ==
    /\ pc = "done"
    /\ chunk_dicts # <<>>
    /\ \A i \in DOMAIN chunk_dicts : \A k \in KeysOf(chunk_dicts[i]) :
           ~IsHugeInt(Get(chunk_dicts[i], k))
    => C22_FirstNumberWins

\* an integer field whose first number is inf is null although an integer
\* follows
C22_WitnessCastFails ==
    /\ pc = "done"
    /\ Len(chunk_dicts) = 2
    /\ Get(chunk_dicts[1], s_count) = Inf(1)
    /\ Get(chunk_dicts[2], s_count) = IntV(3)
    /\ IsDict(merged)
    /\ Get(merged, s_count) = None

(***************************************************************************)
(* The properties of a call of _schema_type, stated on the state after the  *)
(* call (pc = "returned"): args[1] is the field-schema, ret[1] the kind.    *)
(***************************************************************************)
\* the value of "type" in the field-schema, None when there is none
DeclaredType == IF IsDict(args[1]) THEN Get(args[1], K_type) ELSE None

\* the places of the entries other than "null" of a list of types
OtherThanNull == {i \in DOMAIN DeclaredType[2] : DeclaredType[2][i] # Str(T_null)}

\* for a list of types the kind is the first entry other than "null", string
\* when there is none
FirstOtherThanNull ==
    IF OtherThanNull = {} THEN ret[1] = Str(T_string)
    ELSE \E i \in OtherThanNull :
             /\ ret[1] = DeclaredType[2][i]
             /\ \A j \in OtherThanNull : i <= j

\* C23 as stated: every field-schema resolves to one of the six kinds, the
\* first entry other than "null" of a list of types, string when no entry
\* remains or "type" is absent
C23_AlwaysOneOfSixKinds ==
    pc = "returned" =>
        /\ ret[1] \in SixKinds
        /\ IsList(DeclaredType) => FirstOtherThanNull
        /\ IsNone(DeclaredType) => ret[1] = Str(T_string)

\* every name the field-schema declares is one of the six kinds or "null" in
\* a list
DeclaresKindsOnly ==
    IF IsList(DeclaredType)
    THEN \A i \in DOMAIN DeclaredType[2] : DeclaredType[2][i] \in SixKinds \cup {Str(T_null)}
    ELSE IsNone(DeclaredType) \/ DeclaredType \in SixKinds

\* C23: the kind of a field-schema is the first entry other than "null" of
\* a list of types and string when no entry remains; a "type" that is no list
\* is the kind itself, string when it is absent, null or empty; the kind is
\* one of the six whenever the field-schema declares only names of the six
\* kinds; a field-schema that is a non-empty value other than a mapping
\* raises an AttributeError
C23_DeclaredKind ==
    pc = "returned" =>
        IF Truthy(args[1]) /\ ~IsDict(args[1]) THEN ret[1] = Raise("AttributeError")
        ELSE /\ IsList(DeclaredType) => FirstOtherThanNull
             /\ ~IsList(DeclaredType) /\ Truthy(DeclaredType) => ret[1] = DeclaredType
             /\ ~IsList(DeclaredType) /\ ~Truthy(DeclaredType) => ret[1] = Str(T_string)
             /\ DeclaresKindsOnly => ret[1] \in SixKinds

\* a list of two kinds resolves to the first
C23_Witness ==
    /\ pc = "returned"
    /\ DeclaredType = List(<<Str(T_integer), Str(T_string)>>)
    /\ ret[1] = Str(T_integer)

\* a name that is no kind is returned as it is
C23_WitnessUnknown ==
    /\ pc = "returned"
    /\ DeclaredType = List(<<Str(T_null), Str(<<"d", "a", "t", "e">>)>>)
    /\ ret[1] = Str(<<"d", "a", "t", "e">>)

(***************************************************************************)
(* The chunk loop of process_job (JobStepsSpec): calls holds, for the file  *)
(* at hand, what each extraction call gave: the record it returned or the  *)
(* exception it raised.                                                    *)
(***************************************************************************)
\* the records of the calls that returned, in chunk order
ReturnedRecords == SelectIdx(calls, [i \in DOMAIN calls |-> ~IsRaise(calls[i])])

\* C24: the list handed to aggregate_chunk_dicts is exactly the records of
\* the chunks whose call returned, in chunk order; a call that raises adds
\* nothing and stops neither the remaining chunks nor the aggregation nor
\* the saving of the record of the file
C24_FailedChunksOmitted ==
    /\ pc = "chunks" => chunk_dicts = ReturnedRecords
    /\ pc \in {"files", "save", "increment", "end"} => Len(calls) = chunks
    /\ pc = "save" =>
           /\ chunk_dicts = ReturnedRecords
           /\ merged = aggregate_chunk_dicts(ReturnedRecords, schema, technical,
                                             filetype_guess)
    /\ pc = "increment" /\ chunks > 0 =>
           /\ chunk_dicts = ReturnedRecords
           /\ records[Len(records)] = <<fp, merged>>

\* the first call of two raised, the second returned, and the record of the
\* file is saved
C24_Witness ==
    /\ pc = "increment"
    /\ Len(calls) = 2
    /\ IsRaise(calls[1])
    /\ ~IsRaise(calls[2])
    /\ chunk_dicts = <<calls[2]>>
    /\ records[Len(records)] = <<fp, merged>>

\* every call raised, the empty list was aggregated and its record is saved
C24_WitnessAllFailed ==
    /\ pc = "increment"
    /\ Len(calls) = 2
    /\ \A i \in DOMAIN calls : IsRaise(calls[i])
    /\ chunk_dicts = <<>>
    /\ records[Len(records)] =
           <<fp, aggregate_chunk_dicts(<<>>, schema, technical, filetype_guess)>>

(***************************************************************************)
(* The properties of a call of chunk_text (ChunkSpec, ChunkLiveSpec):       *)
(* ret.chunks is the list of spans made so far, the list returned when      *)
(* pc = "returned".                                                         *)
(***************************************************************************)
\* the characters of the text a span holds
Covered(span) == {c \in 1..args.text : span[1] < c /\ c <= span[2]}

\* the spans are bounded, start at 0, leave no gap, cover a prefix of the
\* text and the whole text when there are fewer spans than the cap
SpansBoundedAndCover ==
    /\ Len(ret.chunks) <= ChunkCap
    /\ \A i \in DOMAIN ret.chunks :
           /\ ret.chunks[i][1] < ret.chunks[i][2]
           /\ ret.chunks[i][2] - ret.chunks[i][1] <= EffectiveChunkSize
           /\ 0 <= ret.chunks[i][1] /\ ret.chunks[i][2] <= args.text
    /\ ret.chunks # <<>> => ret.chunks[1][1] = 0
    /\ \A i \in 2..Len(ret.chunks) : ret.chunks[i][1] <= ret.chunks[i - 1][2]
    /\ \E m \in 0..args.text :
           UNION {Covered(ret.chunks[i]) : i \in DOMAIN ret.chunks} = 1..m
    /\ Len(ret.chunks) < ChunkCap =>
           UNION {Covered(ret.chunks[i]) : i \in DOMAIN ret.chunks} = 1..args.text
    /\ args.text = 0 => ret.chunks = <<>>

\* C25: chunk_text returns for every text and every setting of its
\* parameters, and what it returns is a list of at most max(1, max_chunks)
\* spans, each non-empty and no longer than max(200, chunk_size), the first
\* at offset 0, each next one starting at or before the end of the one
\* before, so that the spans cover a prefix of the text, the whole text when
\* the cap is not reached, and no span for the empty text
C25_TerminatesBoundedCovering ==
    /\ <>(pc = "returned")
    /\ [](pc = "returned" => SpansBoundedAndCover)

\* three overlapping spans below the cap cover the whole text
C25_Witness ==
    /\ pc = "returned"
    /\ Len(ret.chunks) = 3
    /\ Len(ret.chunks) < ChunkCap
    /\ ret.chunks[2][1] < ret.chunks[1][2]
    /\ ret.chunks[3][2] = args.text

\* the cap cut the list: the spans cover a prefix only
C25_WitnessCap ==
    /\ pc = "returned"
    /\ Len(ret.chunks) = ChunkCap
    /\ ret.chunks[Len(ret.chunks)][2] < args.text

\* C26: the spans of one call start at strictly increasing offsets, for any
\* text, chunk_size and overlap, so no span is made twice
C26_StartsStrictlyIncrease ==
    \A i \in DOMAIN ret.chunks : \A j \in DOMAIN ret.chunks :
        i < j => ret.chunks[i][1] < ret.chunks[j][1]

\* the starts increase strictly in the calls whose overlap is smaller than the
\* effective chunk size
C26_StartsIncreaseSmallOverlap ==
    EffectiveOverlap < EffectiveChunkSize => C26_StartsStrictlyIncrease

(***************************************************************************)
(* What a record more in the list does to the merged record (LawSpec).      *)
(***************************************************************************)
\* the record merged from the list with a copy of its i-th record appended
WithCopy(i) ==
    aggregate_chunk_dicts(Append(chunk_dicts, chunk_dicts[i]), schema, technical,
                          filetype_guess)

\* C27 as stated: appending a copy of a record of the list does not change
\* the merged record, whatever the kinds of the fields
C27_CopyChangesNothing ==
    pc = "done" => \A i \in DOMAIN chunk_dicts : WithCopy(i) = merged

\* two objects with the same keys whose values are equal, or both empty, or
\* objects that are the same in this sense
RECURSIVE SameButEmpties(_, _)
SameButEmpties(x, y) ==
    /\ [i \in DOMAIN x[2] |-> x[2][i][1]] = [i \in DOMAIN y[2] |-> y[2][i][1]]
    /\ \A i \in DOMAIN x[2] :
           \/ x[2][i][2] = y[2][i][2]
           \/ InEmpties(x[2][i][2]) /\ InEmpties(y[2][i][2])
           \/ /\ IsDict(x[2][i][2])
              /\ IsDict(y[2][i][2])
              /\ SameButEmpties(x[2][i][2], y[2][i][2])

\* two values of a field: equal, or objects, or lists of as many items whose
\* objects are, the same but for the empty values in them
SameField(x, y) ==
    IF IsDict(x) /\ IsDict(y) THEN SameButEmpties(x, y)
    ELSE IF IsList(x) /\ IsList(y)
    THEN /\ Len(x[2]) = Len(y[2])
         /\ \A i \in DOMAIN x[2] :
                IF IsDict(x[2][i]) /\ IsDict(y[2][i]) THEN SameButEmpties(x[2][i], y[2][i])
                ELSE x[2][i] = y[2][i]
    ELSE x = y

\* two merged records with the same keys and the same fields in this sense,
\* or the same exception
SameRecord(x, y) ==
    IF IsDict(x) /\ IsDict(y)
    THEN /\ [i \in DOMAIN x[2] |-> x[2][i][1]] = [i \in DOMAIN y[2] |-> y[2][i][1]]
         /\ \A i \in DOMAIN x[2] : SameField(x[2][i][2], y[2][i][2])
    ELSE x = y

\* C27: appending a copy of a record of the list changes nothing in the
\* merged record but, inside an object or an item of an array of objects, an
\* empty value (null, "", [], {}) into another empty value
C27_CopyChangesEmptiesOnly ==
    pc = "done" => \A i \in DOMAIN chunk_dicts : SameRecord(WithCopy(i), merged)

\* a copy of the first record of two changes an empty value of the merged
\* object
C27_Witness ==
    /\ pc = "done"
    /\ Len(chunk_dicts) = 2
    /\ WithCopy(1) # merged
    /\ SameRecord(WithCopy(1), merged)

\* a copy of a record that gave an item of the merged array changes nothing
C27_WitnessArray ==
    /\ pc = "done"
    /\ Len(chunk_dicts) = 2
    /\ IsDict(merged)
    /\ \E i \in DOMAIN merged[2] : IsList(merged[2][i][2]) /\ Len(merged[2][i][2][2]) > 1
    /\ WithCopy(1) = merged

\* the list with the record x put in after its first p records
InsertAt(p, x) == SubSeq(chunk_dicts, 1, p) \o <<x>> \o SubSeq(chunk_dicts, p + 1, Len(chunk_dicts))

\* the record with every declared name and null for each
AllNullRecord ==
    Dict([i \in DOMAIN _schema_properties(schema)[2] |->
             <<_schema_properties(schema)[2][i][1], None>>])

\* the records that carry no information: no keys, or null for every key
NeutralRecords == {EmptyDict, AllNullRecord}

\* C28: for a list that is not empty, a record without keys or with null
\* for every key, put in at any place, does not change the merged record
C28_NeutralRecord ==
    pc = "done" /\ chunk_dicts # <<>> =>
        \A p \in 0..Len(chunk_dicts) : \A x \in NeutralRecords :
            aggregate_chunk_dicts(InsertAt(p, x), schema, technical, filetype_guess) = merged

\* the all-null record put in before two records that fill a field
C28_Witness ==
    /\ pc = "done"
    /\ Len(chunk_dicts) = 2
    /\ IsDict(merged)
    /\ \E i \in DOMAIN merged[2] : ~InEmpties(merged[2][i][2])
    /\ AllNullRecord # EmptyDict
    /\ aggregate_chunk_dicts(InsertAt(0, AllNullRecord), schema, technical,
                             filetype_guess) = merged

(***************************************************************************)
(* The counter files_done and the rows of records of a job (JobSpec).       *)
(***************************************************************************)
\* C29: at every point during and after process_job files_done equals the
\* number of records saved for the job and is at most total_files; a file
\* gives at most one record and one increment, the record first, and a file
\* whose processing raises gives neither
C29_CounterEqualsRecords ==
    /\ files_done = Len(records)
    /\ files_done <= total_files
    /\ \A i \in DOMAIN records : \A j \in DOMAIN records :
           i < j => records[i][1] < records[j][1]

\* the counter is never ahead of the records, the records never ahead of
\* the files gone through, and no file has two records
C29_CounterNeverAhead ==
    /\ files_done <= Len(records)
    /\ Len(records) <= fp
    /\ fp <= total_files
    /\ \A i \in DOMAIN records : \A j \in DOMAIN records :
           i < j => records[i][1] < records[j][1]
    /\ pc # "increment" /\ files_done < Len(records) => files_done < fp

\* the job has ended with a record saved and the counter behind
C29_CounterBehindAtEnd ==
    /\ pc = "end"
    /\ files_done < Len(records)

(***************************************************************************)
(* The worker loops and the job table (WorkerSpec, SoloWorkerSpec).         *)
(***************************************************************************)
\* no job is in handed twice
HandedOnce == \A i \in DOMAIN handed : \A j \in DOMAIN handed : i # j => handed[i] # handed[j]

\* C30: a job is processed at most once: no job is handed to process_job
\* twice, two worker loops on one job table included; a job handed to
\* process_job is no longer "queued", and a loop that has taken a job and
\* not yet marked it holds a job that is "queued"
C30_ProcessedAtMostOnce ==
    /\ HandedOnce
    /\ \A i \in DOMAIN handed : status[handed[i]] # "queued"
    /\ \A w \in Workers : wpc[w] = "mark" => status[wjob[w]] = "queued"

\* with one worker loop the claim holds, and the jobs are handed out in the
\* order of creation
C30_OneLoopAtMostOnce ==
    /\ C30_ProcessedAtMostOnce
    /\ \A i \in DOMAIN handed : \A j \in DOMAIN handed : i < j => handed[i] < handed[j]

\* a status that is not "queued" does not become "queued", with any number
\* of worker loops
C30_NeverQueuedAgain ==
    [][\A j \in DOMAIN status : status[j] # "queued" => status'[j] # "queued"]_vars

\* both worker loops have been handed the same job
C30_HandedTwice ==
    /\ Len(handed) = 2
    /\ handed[1] = handed[2]
    /\ wpc[1] = "process"
    /\ wpc[2] = "process"

====
